---- MODULE Spec2Model ----
(***************************************************************************)
(* Quote comparison on the deal detail page                                *)
(* (frontend/app/deals/[id]/page.tsx, lines 1-641),                        *)
(* the error codes of request (frontend/lib/api.ts),                       *)
(* and the pagination of the deals list page (unnamed/part_005).           *)
(*                                                                         *)
(* Text is a sequence of one-character strings, so that trimming and       *)
(* decimal parsing are computed character by character.  A JS number       *)
(* (ids, leadTimeDays, moq) is an integer.                                 *)
(***************************************************************************)
EXTENDS Integers, Sequences, FiniteSets, TLC

\* ------------------------------------------------------------------ bounds
\* Saved quotes on the server / in the table (the draft row comes on top).
MaxQuotes == 2

\* updateRow calls (keystrokes) in one behaviour.
MaxEdits == 2

\* Async calls in flight at once.
MaxInFlight == 2

\* ------------------------------------------------------------------- text
\* null / undefined for an optional string field (amountBase, fxRate, fxDate).
Null == <<"<null>">>

Empty == <<>>

Digits == {"0", "1", "2", "3", "4", "5", "6", "7", "8", "9"}

DigitVal(c) ==
  CASE c = "0" -> 0 [] c = "1" -> 1 [] c = "2" -> 2 [] c = "3" -> 3 [] c = "4" -> 4
    [] c = "5" -> 5 [] c = "6" -> 6 [] c = "7" -> 7 [] c = "8" -> 8 [] c = "9" -> 9

\* JS truthiness of a string | null | undefined value.
Truthy(t) == t # Null /\ t # Empty

RECURSIVE TrimLeft(_)
TrimLeft(t) == IF t # Empty /\ Head(t) = " " THEN TrimLeft(Tail(t)) ELSE t

RECURSIVE TrimRight(_)
TrimRight(t) ==
  IF t # Empty /\ t[Len(t)] = " " THEN TrimRight(SubSeq(t, 1, Len(t) - 1)) ELSE t

\* String.prototype.trim
Trim(t) == TrimRight(TrimLeft(t))

AllDigits(t) == \A i \in 1..Len(t) : t[i] \in Digits

RECURSIVE DigitsValue(_)
DigitsValue(t) ==
  IF t = Empty THEN 0 ELSE 10 * DigitsValue(SubSeq(t, 1, Len(t) - 1)) + DigitVal(t[Len(t)])

\* ---------------------------------------------------------------- decimals
\* A Decimal is [k, n, s]: k = "fin" is the value n / 10^s; k = "inf" is
\* n * Infinity (n = 1 or -1); k = "nan" is NaN.  k = "null" is the null that
\* parseDecimal returns instead of a Decimal.
NullDec == [k |-> "null", n |-> 0, s |-> 0]
NaNDec == [k |-> "nan", n |-> 0, s |-> 0]
InfDec(sign) == [k |-> "inf", n |-> sign, s |-> 0]
FinDec(n, s) == [k |-> "fin", n |-> n, s |-> s]

RECURSIVE Pow10(_)
Pow10(e) == IF e = 0 THEN 1 ELSE 10 * Pow10(e - 1)

\* Position of the first "." in t, or 0.
RECURSIVE DotPos(_, _)
DotPos(t, i) == IF i > Len(t) THEN 0 ELSE IF t[i] = "." THEN i ELSE DotPos(t, i + 1)

\* The unsigned part of a numeric literal: digits with at most one ".",
\* at least one digit ( \d+(\.\d*)? | \.\d+ ), or Infinity, or NaN.
Unsigned(u, sign) ==
  LET dot == DotPos(u, 1)
      ip == IF dot = 0 THEN u ELSE SubSeq(u, 1, dot - 1)
      fp == IF dot = 0 THEN Empty ELSE SubSeq(u, dot + 1, Len(u))
  IN  IF u = <<"N", "a", "N">> THEN NaNDec
      ELSE IF u = <<"I", "n", "f", "i", "n", "i", "t", "y">> THEN InfDec(sign)
      ELSE IF /\ AllDigits(ip) /\ AllDigits(fp)
              /\ (ip # Empty \/ (dot # 0 /\ fp # Empty))
           THEN FinDec(sign * DigitsValue(ip \o fp), Len(fp))
      ELSE NullDec

\* new Decimal(text) inside try/catch: the Decimal, or NullDec where the
\* constructor throws.
NewDecimal(t) ==
  IF t = Empty THEN NullDec
  ELSE IF Head(t) = "-" THEN Unsigned(Tail(t), -1)
  ELSE Unsigned(t, 1)

parseDecimal(value) ==
  LET trimmed == IF value = Null THEN Empty ELSE Trim(value)
  IN  IF trimmed = Empty THEN NullDec ELSE NewDecimal(trimmed)

\* Decimal.prototype.comparedTo for two non-NaN decimals: -1, 0 or 1.
Cmp(a, b) ==
  LET x == IF a.k = "inf" THEN 2 * a.n ELSE 0
      y == IF b.k = "inf" THEN 2 * b.n ELSE 0
      l == a.n * Pow10(b.s)
      r == b.n * Pow10(a.s)
  IN  IF a.k = "inf" \/ b.k = "inf"
        THEN (IF x < y THEN -1 ELSE IF x > y THEN 1 ELSE 0)
        ELSE (IF l < r THEN -1 ELSE IF l > r THEN 1 ELSE 0)

Zero == FinDec(0, 0)

IsNaN(a) == a.k = "nan"

\* Variant: two decimals are equal when their digits and scale are.
equals_SameRepresentation(a, b) == a = b

\* Decimal comparisons; every comparison with NaN is false.
greaterThan(a, b) == ~IsNaN(a) /\ ~IsNaN(b) /\ Cmp(a, b) = 1
lessThan(a, b) == ~IsNaN(a) /\ ~IsNaN(b) /\ Cmp(a, b) = -1
lte(a, b) == ~IsNaN(a) /\ ~IsNaN(b) /\ Cmp(a, b) < 1
equals(a, b) == ~IsNaN(a) /\ ~IsNaN(b) /\ Cmp(a, b) = 0

\* Number(value) || 0 for the text of a number input: an integer literal,
\* or 0 for empty and for non-numeric text.  (The model's inputs hold no
\* fractional literals.)
NumberOrZero(value) ==
  LET t == Trim(value)
      neg == t # Empty /\ Head(t) = "-"
      u == IF neg THEN Tail(t) ELSE t
  IN  IF u # Empty /\ AllDigits(u) THEN (IF neg THEN 0 - DigitsValue(u) ELSE DigitsValue(u))
      ELSE 0

\* ------------------------------------------------------------ sample texts
T80 == <<"8", "0">>
T90 == <<"9", "0">>
T100 == <<"1", "0", "0">>
TZero == <<"0">>
TFive == <<"5">>
TSeven == <<"7">>
TNaN == <<"N", "a", "N">>
TInfinity == <<"I", "n", "f", "i", "n", "i", "t", "y">>
TMinusFive == <<"-", "5">>
TBlank == <<" ">>
TInvalid == <<"1", ".", "2", ".", "3">>
T100_00 == <<"1", "0", "0", ".", "0", "0">>
T100_01 == <<"1", "0", "0", ".", "0", "1">>

Currencies == {"USD", "EUR"}

\* Lead times of the sample quotes; 0 is "unspecified".
LeadTimes == {0, 5, 10, 20}

\* ------------------------------------------------------------------- rows
VARIABLES
  rows,              \* useState<QuoteRow[]>: the table's rows
  dealCurrency,      \* the deal's base currency
  bestQuoteId,       \* server-computed best value quote, NoId for null
  unscoredQuoteIds,  \* server-computed list of unscored quote ids
  view,              \* what the last render shows in the comparison table
  loading,           \* useState loading: the page shows "Loading deal..."
  loadError,         \* a load error message is set (the page shows it)
  token,             \* the session's access token, NoToken for null
  mounted,           \* isMounted.current
  calls,             \* the async calls in flight, in the order they started
  db,                \* the server's quotes of the deal; quote i has id i
  edits,             \* number of updateRow calls so far
  again,             \* what a second run of the comparison on the same snapshot gives
  api,               \* a call of request (lib/api.ts): the response and the outcome
  savingRowIndex,    \* useState savingRowIndex, NoIndex for null
  quoteOffset,       \* useState quoteOffset
  quoteHasMore,      \* useState quoteHasMore
  loadingMore,       \* useState loadingMore
  saveError,         \* a save error message is set (shown above the tables)
  dealsPage          \* the deals list page (app/deals/page.tsx), looked at on its own

pageVars == <<rows, dealCurrency, bestQuoteId, unscoredQuoteIds>>
\* The comparison run a second time and the API request, looked at on their
\* own: no step of the page touches them.
sideVars == <<again, api, dealsPage>>
\* The page's state for saving and for loading further pages.
moreVars == <<savingRowIndex, quoteOffset, quoteHasMore, loadingMore, saveError>>
vars == <<rows, dealCurrency, bestQuoteId, unscoredQuoteIds, view,
          loading, loadError, token, mounted, calls, db, edits, sideVars, moreVars>>

\* A row without the id key (row.id undefined); bestQuoteId === null.
NoId == 0

\* bestValueIndex === null.  Positions in activeRows count from 1 here
\* (from 0 in the source).
NoIndex == 0

createBlankRow(currency) ==
  [id |-> NoId, supplier |-> "", price |-> Empty, currency |-> currency,
   amountBase |-> Null, baseCurrency |-> currency, fxRate |-> Null, fxDate |-> Null,
   leadTimeDays |-> 0, moq |-> 0]

\* Variant: a stored amountBase wins over the raw amount.
getNormalizedAmount_PreferBase(row, cur) ==
  IF Truthy(row.amountBase) THEN row.amountBase
  ELSE IF row.currency = cur THEN row.price ELSE Null

getNormalizedAmount(row, cur) ==
  IF row.currency = cur
    THEN (IF Truthy(row.price) THEN row.price ELSE row.amountBase)
    ELSE IF Truthy(row.amountBase) THEN row.amountBase ELSE Null

\* Variant: a row counts as active as soon as it has a currency.
IsActive_ByCurrency(row) ==
  row.supplier # "" \/ Truthy(row.price) \/ row.id # NoId \/ row.currency # ""

IsActive(row) == row.supplier # "" \/ Truthy(row.price) \/ row.id # NoId

activeRows(rs) == SelectSeq(rs, IsActive)

\* prices.reduce((min, value) => value.lessThan(min) ? value : min)
RECURSIVE ReduceMin(_, _)
ReduceMin(min, rest) ==
  IF rest = <<>> THEN min
  ELSE ReduceMin(IF lessThan(Head(rest), min) THEN Head(rest) ELSE min, Tail(rest))

\* Variant: amounts that are not > 0 stay in the list.
bestPrice_KeepsNonPositive(active, cur) ==
  LET parsed == [i \in 1..Len(active) |-> parseDecimal(getNormalizedAmount(active[i], cur))]
      prices == SelectSeq(parsed, LAMBDA v : v # NullDec /\ ~IsNaN(v))
  IN  IF prices = <<>> THEN NullDec ELSE ReduceMin(Head(prices), Tail(prices))

bestPrice(active, cur) ==
  LET parsed == [i \in 1..Len(active) |-> parseDecimal(getNormalizedAmount(active[i], cur))]
      prices == SelectSeq(parsed, LAMBDA v : v # NullDec /\ greaterThan(v, Zero))
  IN  IF prices = <<>> THEN NullDec ELSE ReduceMin(Head(prices), Tail(prices))

\* Math.min(...leadTimes) of a non-empty list.
MathMin(list) ==
  CHOOSE m \in {list[i] : i \in 1..Len(list)} : \A j \in 1..Len(list) : m <= list[j]

\* Variant: a lead time of 0 counts.
bestLeadTime_CountsZero(active) ==
  LET all == [i \in 1..Len(active) |-> active[i].leadTimeDays]
      leadTimes == SelectSeq(all, LAMBDA v : v >= 0)
  IN  IF leadTimes = <<>> THEN [defined |-> FALSE, value |-> 0]
      ELSE [defined |-> TRUE, value |-> MathMin(leadTimes)]

\* undefined when no active row has leadTimeDays > 0.
bestLeadTime(active) ==
  LET all == [i \in 1..Len(active) |-> active[i].leadTimeDays]
      leadTimes == SelectSeq(all, LAMBDA v : v > 0)
  IN  IF leadTimes = <<>> THEN [defined |-> FALSE, value |-> 0]
      ELSE [defined |-> TRUE, value |-> MathMin(leadTimes)]

\* ------------------------------------------------------------- best value
\* Variant: the lead time is not looked at.
candidates_IgnoringLeadTime(active, cur) ==
  LET entry(i) ==
        [index |-> i,
         amount |-> parseDecimal(getNormalizedAmount(active[i], cur)),
         leadTimeDays |-> active[i].leadTimeDays]
      keep(c) == ~(c.amount = NullDec \/ lte(c.amount, Zero))
  IN  SelectSeq([i \in 1..Len(active) |-> entry(i)], keep)

\* activeRows.map(...).filter(row !== null): one entry per active row that
\* has a parsed amount, not <= 0, and leadTimeDays > 0.
candidates(active, cur) ==
  LET entry(i) ==
        [index |-> i,
         amount |-> parseDecimal(getNormalizedAmount(active[i], cur)),
         leadTimeDays |-> active[i].leadTimeDays]
      keep(c) == ~(c.amount = NullDec \/ lte(c.amount, Zero) \/ c.leadTimeDays <= 0)
  IN  SelectSeq([i \in 1..Len(active) |-> entry(i)], keep)

\* What Array.prototype.sort makes of a.amount.comparedTo(b.amount): a NaN
\* result counts as 0.
PriceCompare(a, b) == IF IsNaN(a.amount) \/ IsNaN(b.amount) THEN 0 ELSE Cmp(a.amount, b.amount)

LeadTimeCompare(a, b) == a.leadTimeDays - b.leadTimeDays

\* Stable insertion of x behind every element that does not compare greater.
RECURSIVE InsertByPrice(_, _)
InsertByPrice(sorted, x) ==
  IF sorted = <<>> THEN <<x>>
  ELSE IF PriceCompare(sorted[Len(sorted)], x) <= 0 THEN Append(sorted, x)
  ELSE Append(InsertByPrice(SubSeq(sorted, 1, Len(sorted) - 1), x), sorted[Len(sorted)])

RECURSIVE SortByPrice(_)
SortByPrice(list) ==
  IF list = <<>> THEN <<>>
  ELSE InsertByPrice(SortByPrice(SubSeq(list, 1, Len(list) - 1)), list[Len(list)])

RECURSIVE InsertByLeadTime(_, _)
InsertByLeadTime(sorted, x) ==
  IF sorted = <<>> THEN <<x>>
  ELSE IF LeadTimeCompare(sorted[Len(sorted)], x) <= 0 THEN Append(sorted, x)
  ELSE Append(InsertByLeadTime(SubSeq(sorted, 1, Len(sorted) - 1), x), sorted[Len(sorted)])

RECURSIVE SortByLeadTime(_)
SortByLeadTime(list) ==
  IF list = <<>> THEN <<>>
  ELSE InsertByLeadTime(SortByLeadTime(SubSeq(list, 1, Len(list) - 1)), list[Len(list)])

AllOrders(list) ==
  LET n == Len(list)
      bij == {f \in [1..n -> 1..n] : \A i, j \in 1..n : f[i] = f[j] => i = j}
  IN  {[i \in 1..n |-> list[f[i]]] : f \in bij}

\* PriceCompare is a consistent comparator unless a NaN amount compares
\* equal to two amounts that differ.
ConsistentPrices(list) ==
  ~ \E i, j, k \in 1..Len(list) :
      /\ IsNaN(list[i].amount) /\ ~IsNaN(list[j].amount) /\ ~IsNaN(list[k].amount)
      /\ Cmp(list[j].amount, list[k].amount) # 0

\* [...candidates].sort(by amount): the stable sort under a consistent
\* comparator; any order (implementation-defined) otherwise.
byPrice(list) == IF ConsistentPrices(list) THEN {SortByPrice(list)} ELSE AllOrders(list)

byLeadTime(list) == SortByLeadTime(list)

\* new Map(sorted.map((row, rank) => [row.index, rank])).get(index), ranks
\* counted from 0.
Rank(sorted, index) == (CHOOSE r \in 1..Len(sorted) : sorted[r].index = index) - 1

\* The loop over candidates: the first candidate with the lowest score.
RECURSIVE ScoreLoop(_, _, _, _, _)
ScoreLoop(list, priceOrder, leadOrder, bestIndex, bestScore) ==
  IF list = <<>> THEN bestIndex
  ELSE LET row == Head(list)
           score == Rank(priceOrder, row.index) + Rank(leadOrder, row.index)
       IN  IF bestIndex = NoIndex \/ score < bestScore
             THEN ScoreLoop(Tail(list), priceOrder, leadOrder, row.index, score)
             ELSE ScoreLoop(Tail(list), priceOrder, leadOrder, bestIndex, bestScore)

\* The values bestValueIndex can take: one value, unless the sort by amount
\* is implementation-defined.
bestValueIndex(active, cur) ==
  LET list == candidates(active, cur)
  IN  IF list = <<>> THEN {NoIndex}
      ELSE {ScoreLoop(list, p, byLeadTime(list), NoIndex, 0) : p \in byPrice(list)}
\* ----------------------------------------------------------------- render
\* Nothing rendered yet, or the page shows "Loading deal..." / an error
\* instead of the tables.
NoView ==
  [rendered |-> FALSE, bestPrice |-> NullDec, bestLeadTime |-> [defined |-> FALSE, value |-> 0],
   byPrice |-> <<>>, bestValueIndex |-> NoIndex, cells |-> <<>>]

\* Variant: the local bestValueIndex wins over the server's bestQuoteId.
Cell_LocalFirst(row, index, cur, bp, blt, bvi, bestId, unscored) ==
  LET normalized == getNormalizedAmount(row, cur)
      amount == parseDecimal(normalized)
      isBestValue == IF bvi # NoIndex THEN index = bvi ELSE bestId # NoId /\ row.id = bestId
      isUnscored == IF row.id # NoId THEN \E k \in 1..Len(unscored) : unscored[k] = row.id
                    ELSE FALSE
  IN  [id |-> row.id,
       normalized |-> normalized,
       isBest |-> bp # NullDec /\ amount # NullDec /\ equals(amount, bp),
       isMissing |-> ~Truthy(normalized),
       isFastest |-> blt.defined /\ row.leadTimeDays = blt.value,
       isBestValue |-> isBestValue,
       isUnscored |-> isUnscored,
       label |-> IF isBestValue THEN "Best value" ELSE IF isUnscored THEN "Needs FX" ELSE "-"]

\* Variant: a row is marked when the server names it or when the local
\* bestValueIndex points at it.
Cell_EitherMark(row, index, cur, bp, blt, bvi, bestId, unscored) ==
  LET normalized == getNormalizedAmount(row, cur)
      amount == parseDecimal(normalized)
      isBestValue == (bestId # NoId /\ row.id = bestId) \/ (bvi # NoIndex /\ index = bvi)
      isUnscored == IF row.id # NoId THEN \E k \in 1..Len(unscored) : unscored[k] = row.id
                    ELSE FALSE
  IN  [id |-> row.id,
       normalized |-> normalized,
       isBest |-> bp # NullDec /\ amount # NullDec /\ equals(amount, bp),
       isMissing |-> ~Truthy(normalized),
       isFastest |-> blt.defined /\ row.leadTimeDays = blt.value,
       isBestValue |-> isBestValue,
       isUnscored |-> isUnscored,
       label |-> IF isBestValue THEN "Best value" ELSE IF isUnscored THEN "Needs FX" ELSE "-"]

\* One column of the comparison table: the Normalized, Lead Time and
\* Best value cells of an active row.
Cell(row, index, cur, bp, blt, bvi, bestId, unscored) ==
  LET normalized == getNormalizedAmount(row, cur)
      amount == parseDecimal(normalized)
      isBestValue == IF bestId # NoId THEN row.id = bestId
                     ELSE bvi # NoIndex /\ index = bvi
      isUnscored == IF row.id # NoId THEN \E k \in 1..Len(unscored) : unscored[k] = row.id
                    ELSE FALSE
  IN  [id |-> row.id,
       normalized |-> normalized,
       isBest |-> bp # NullDec /\ amount # NullDec /\ equals(amount, bp),
       isMissing |-> ~Truthy(normalized),
       isFastest |-> blt.defined /\ row.leadTimeDays = blt.value,
       isBestValue |-> isBestValue,
       isUnscored |-> isUnscored,
       label |-> IF isBestValue THEN "Best value" ELSE IF isUnscored THEN "Needs FX" ELSE "-"]

\* The orders the sort by amount can leave the candidates in (one order
\* for one engine and one list); no order without candidates.
PriceOrders(active, cur) ==
  LET list == candidates(active, cur)
  IN  IF list = <<>> THEN {<<>>} ELSE byPrice(list)

\* bestValueIndex when the sort by amount returns the order p.
bestValueIndexWith(active, cur, p) ==
  LET list == candidates(active, cur)
  IN  IF list = <<>> THEN NoIndex ELSE ScoreLoop(list, p, byLeadTime(list), NoIndex, 0)

\* The render of the comparison table when the sort by amount returns the
\* order p.
RenderWith(rs, cur, bestId, unscored, p) ==
  LET active == activeRows(rs)
      bp == bestPrice(active, cur)
      blt == bestLeadTime(active)
      bvi == bestValueIndexWith(active, cur, p)
  IN  [rendered |-> TRUE, bestPrice |-> bp, bestLeadTime |-> blt,
       byPrice |-> p, bestValueIndex |-> bvi,
       cells |-> [i \in 1..Len(active) |->
                    Cell(active[i], i, cur, bp, blt, bvi, bestId, unscored)]]

\* Every render the state allows.
Renders(rs, cur, bestId, unscored) ==
  {RenderWith(rs, cur, bestId, unscored, p) : p \in PriceOrders(activeRows(rs), cur)}

\* ---------------------------------------------------------------- request
\* No call of request is looked at.
NoRequest == [made |-> FALSE]

STATUS_CODE_TO_ERROR_CODE ==
  (401 :> "UNAUTHORIZED") @@ (403 :> "FORBIDDEN") @@ (404 :> "NOT_FOUND")
    @@ (409 :> "CONFLICT") @@ (429 :> "RATE_LIMITED")

\* Variant: only statuses above 500 count as server errors.
defaultErrorCode_Above500(status) ==
  IF status > 500 THEN "INTERNAL_ERROR"
  ELSE IF status \in DOMAIN STATUS_CODE_TO_ERROR_CODE THEN STATUS_CODE_TO_ERROR_CODE[status]
  ELSE "HTTP_ERROR"

defaultErrorCode(status) ==
  IF status >= 500 THEN "INTERNAL_ERROR"
  ELSE IF status \in DOMAIN STATUS_CODE_TO_ERROR_CODE THEN STATUS_CODE_TO_ERROR_CODE[status]
  ELSE "HTTP_ERROR"

\* A JSON value met where a string is looked for: type is its typeof.
Undefined == [type |-> "undefined", text |-> ""]
JsonNumber == [type |-> "number", text |-> ""]
JsonString(text) == [type |-> "string", text |-> text]

\* The error member of a body: absent, null, a string, or an object with
\* code and message members.
NoError == [kind |-> "absent", code |-> Undefined, message |-> Undefined]
NullError == [kind |-> "null", code |-> Undefined, message |-> Undefined]
StringError == [kind |-> "string", code |-> Undefined, message |-> Undefined]
ErrorObject(code, message) == [kind |-> "object", code |-> code, message |-> message]

\* A response body: text that is not JSON, the JSON null, or an object.
NotJson == [json |-> FALSE, data |-> "none", error |-> NoError, detail |-> Undefined]
JsonNull == [json |-> TRUE, data |-> "null", error |-> NoError, detail |-> Undefined]
JsonObject(error, detail) == [json |-> TRUE, data |-> "object", error |-> error, detail |-> detail]

\* data?.error is truthy.
HasError(body) == body.data = "object" /\ body.error.kind \in {"string", "object"}

\* The message of an ApiError: a text, the status following it in the
\* default message.
Message(text, status) == [text |-> text, status |-> status]

NoOutcome == [kind |-> "none", code |-> "", status |-> 0, message |-> Message("", 0)]

\* new ApiError(message, code, status)
ApiError(message, code, status) ==
  [kind |-> "ApiError", code |-> code, status |-> status, message |-> message]

\* What a call of request ends in for the response fetch brings: the
\* ApiError thrown, the parsed body returned ("returned"), or the
\* rejection of res.json() on a 2xx body that is not JSON.
request(response) ==
  IF ~response.fetched
    THEN ApiError(Message(IF response.isError THEN "failed to fetch"
                          ELSE "Network request failed", 0),
                  "NETWORK_ERROR", 0)
  ELSE IF ~response.ok
    THEN LET body == response.body
             default == Message("Request failed with status ", response.status)
             code == IF body.json /\ HasError(body) /\ body.error.code.type = "string"
                       THEN body.error.code.text
                     ELSE defaultErrorCode(response.status)
             message ==
               IF ~body.json THEN default
               ELSE IF HasError(body)
                 THEN (IF body.error.message.type = "string"
                         THEN Message(body.error.message.text, 0) ELSE default)
               ELSE IF body.data = "object" /\ body.detail.type = "string"
                 THEN Message(body.detail.text, 0)
               ELSE default
         IN  ApiError(message, code, response.status)
  ELSE IF response.body.json
    THEN [kind |-> "returned", code |-> "", status |-> response.status, message |-> Message("", 0)]
  ELSE [kind |-> "SyntaxError", code |-> "", status |-> response.status, message |-> Message("", 0)]

\* ------------------------------------------------------------- deals list
\* The deals list page is not looked at.
NoDealsPage == [open |-> FALSE]

\* ----------------------------------------------------------------- server
NoToken == ""

PAGE_SIZE == 20

\* The deal's currency as the server reports it (deal.currency).
ServerDealCurrency == "USD"

\* Quotes the server may hold for the deal.  A quote in the deal's currency
\* carries amount_base = amount; a foreign quote carries a converted amount
\* or none (no rate known).
ServerQuotes(id) ==
  {[id |-> id, supplier |-> "S", amount |-> T100, currency |-> "USD", amount_base |-> T100,
    base_currency |-> "USD", fx_rate |-> <<"1">>, fx_date |-> <<"d">>,
    lead_time_days |-> l, moq |-> 0] : l \in {0, 5}}
  \cup
  {[id |-> id, supplier |-> "S", amount |-> T100, currency |-> "EUR", amount_base |-> b,
    base_currency |-> "USD", fx_rate |-> IF b = Null THEN Null ELSE <<"2">>,
    fx_date |-> IF b = Null THEN Null ELSE <<"d">>,
    lead_time_days |-> l, moq |-> 0] : b \in {Null, T80}, l \in {0, 5}}

ServerDbs ==
  UNION {{f \in [1..n -> UNION {ServerQuotes(id) : id \in 1..n}] : \A i \in 1..n : f[i].id = i} :
           n \in 0..MaxQuotes}

Min(a, b) == IF a < b THEN a ELSE b

\* GET /quotes?deal_id=..&limit=..&offset=..: one page of the deal's quotes.
QuotesPage(quotes, limit, offset) ==
  [items |-> SubSeq(quotes, offset + 1, Min(offset + limit, Len(quotes))),
   has_more |-> offset + limit < Len(quotes)]

\* The rank-sum rule over items [amount, lead]: candidates have a usable
\* amount > 0 and a lead time > 0; the score of a candidate is its 0-based
\* position by amount plus its 0-based position by lead time; the lowest
\* score wins, the first in order among equals.  NoIndex without candidates.
RankSumCandidatesOf(items) ==
  {i \in 1..Len(items) :
     /\ items[i].amount # NullDec /\ greaterThan(items[i].amount, Zero)
     /\ items[i].lead > 0}

RankSumScoreOf(items, i) ==
  LET C == RankSumCandidatesOf(items)
  IN  Cardinality({j \in C : lessThan(items[j].amount, items[i].amount)})
      + Cardinality({j \in C : j < i /\ equals(items[j].amount, items[i].amount)})
      + Cardinality({j \in C : items[j].lead < items[i].lead})
      + Cardinality({j \in C : j < i /\ items[j].lead = items[i].lead})

RankSumWinnerOf(items) ==
  LET C == RankSumCandidatesOf(items)
  IN  IF C = {} THEN NoIndex
      ELSE CHOOSE i \in C :
             \A j \in C :
               \/ RankSumScoreOf(items, i) < RankSumScoreOf(items, j)
               \/ (RankSumScoreOf(items, i) = RankSumScoreOf(items, j) /\ i <= j)

\* POST /quotes/compare: the authoritative comparison of the stored quotes
\* with the given ids.
ServerCompare(quotes, quoteIds) ==
  LET q(k) == quotes[quoteIds[k]]
      normalized(k) == IF q(k).currency = ServerDealCurrency THEN q(k).amount
                       ELSE q(k).amount_base
      items == [k \in 1..Len(quoteIds) |->
                  [amount |-> parseDecimal(normalized(k)), lead |-> q(k).lead_time_days]]
      winner == RankSumWinnerOf(items)
      unscored == SelectSeq(quoteIds,
                    LAMBDA id : /\ quotes[id].currency # ServerDealCurrency
                                /\ ~Truthy(quotes[id].amount_base))
  IN  [best_quote_id |-> IF winner = NoIndex THEN NoId ELSE quoteIds[winner],
       unscored_quote_ids |-> unscored]

\* POST /quotes and PATCH /quotes/{id} take a payload the data model
\* admits: a finite, non-negative amount, non-negative lead time and moq.
ServerAccepts(payload) ==
  LET amount == parseDecimal(payload.amount)
  IN  /\ amount.k = "fin" /\ amount.n >= 0
      /\ payload.leadTimeDays >= 0 /\ payload.moq >= 0

\* The quote the server stores and returns for a payload.  base is the
\* amount converted into the deal's currency: Null when no rate is known.
ServerSave(quotes, payload, base) ==
  LET sameCurrency == payload.currency = ServerDealCurrency
      amountBase == IF sameCurrency THEN payload.amount ELSE base
  IN  [id |-> IF payload.id # NoId THEN payload.id ELSE Len(quotes) + 1,
       supplier |-> payload.supplier, amount |-> payload.amount,
       currency |-> payload.currency, amount_base |-> amountBase,
       base_currency |-> ServerDealCurrency,
       fx_rate |-> IF sameCurrency THEN <<"1">> ELSE IF amountBase = Null THEN Null ELSE <<"2">>,
       fx_date |-> IF amountBase = Null THEN Null ELSE <<"d">>,
       lead_time_days |-> payload.leadTimeDays, moq |-> payload.moq]

\* The stored quotes after quote is saved.
ServerPut(quotes, quote) ==
  IF quote.id <= Len(quotes) THEN [quotes EXCEPT ![quote.id] = quote] ELSE Append(quotes, quote)

\* The converted amounts the server may compute for a foreign quote.
ServerBases == {Null, T90}

\* ------------------------------------------------------------------- page
\* quotes.items.map<QuoteRow>(...)
mapQuote(quote, baseCurrency) ==
  [id |-> quote.id,
   supplier |-> IF quote.supplier # "" THEN quote.supplier ELSE "Supplier N",
   price |-> IF Truthy(quote.amount) THEN quote.amount ELSE Empty,
   currency |-> IF quote.currency # "" THEN quote.currency ELSE baseCurrency,
   amountBase |-> IF Truthy(quote.amount_base) THEN quote.amount_base ELSE Null,
   baseCurrency |-> IF quote.base_currency # "" THEN quote.base_currency ELSE baseCurrency,
   fxRate |-> IF Truthy(quote.fx_rate) THEN quote.fx_rate ELSE Null,
   fxDate |-> IF Truthy(quote.fx_date) THEN quote.fx_date ELSE Null,
   leadTimeDays |-> quote.lead_time_days,
   moq |-> quote.moq]

\* rows.map((row) => row.id!).filter((id) => typeof id === "number")
QuoteIdsOf(rs) == SelectSeq([i \in 1..Len(rs) |-> rs[i].id], LAMBDA id : id # NoId)

RemoveAt(list, k) == SubSeq(list, 1, k - 1) \o SubSeq(list, k + 1, Len(list))

\* What the page shows: the tables once loading is over and no load error
\* is set, nothing of them otherwise.
ViewOf(rs, cur, bestId, unscored, ld, err, mnt) ==
  IF mnt /\ ~ld /\ ~err THEN Renders(rs, cur, bestId, unscored) ELSE {NoView}

\* Variant: every edit clears the derived FX fields.
updateRow_ClearsFxOnAnyEdit(row, key, value) ==
  CASE key = "price" ->
         [row EXCEPT !.price = value, !.amountBase = Null, !.fxRate = Null, !.fxDate = Null]
    [] key = "currency" ->
         [row EXCEPT !.currency = value, !.amountBase = Null, !.fxRate = Null, !.fxDate = Null]
    [] key = "leadTimeDays" ->
         [row EXCEPT !.leadTimeDays = NumberOrZero(value),
                     !.amountBase = Null, !.fxRate = Null, !.fxDate = Null]
    [] key = "moq" ->
         [row EXCEPT !.moq = NumberOrZero(value),
                     !.amountBase = Null, !.fxRate = Null, !.fxDate = Null]
    [] key = "supplier" ->
         [row EXCEPT !.supplier = value, !.amountBase = Null, !.fxRate = Null, !.fxDate = Null]

\* Variant: a currency edit keeps the derived FX fields.
updateRow_KeepsFxOnCurrency(row, key, value) ==
  CASE key = "price" ->
         [row EXCEPT !.price = value, !.amountBase = Null, !.fxRate = Null, !.fxDate = Null]
    [] key = "currency" -> [row EXCEPT !.currency = value]
    [] key = "leadTimeDays" -> [row EXCEPT !.leadTimeDays = NumberOrZero(value)]
    [] key = "moq" -> [row EXCEPT !.moq = NumberOrZero(value)]
    [] key = "supplier" -> [row EXCEPT !.supplier = value]

\* The row updateRow puts in place of the edited one.
updateRow(row, key, value) ==
  CASE key = "price" ->
         [row EXCEPT !.price = value, !.amountBase = Null, !.fxRate = Null, !.fxDate = Null]
    [] key = "currency" ->
         [row EXCEPT !.currency = value, !.amountBase = Null, !.fxRate = Null, !.fxDate = Null]
    [] key = "leadTimeDays" -> [row EXCEPT !.leadTimeDays = NumberOrZero(value)]
    [] key = "moq" -> [row EXCEPT !.moq = NumberOrZero(value)]
    [] key = "supplier" -> [row EXCEPT !.supplier = value]

Init ==
  /\ rows = <<>> /\ dealCurrency = "USD" /\ bestQuoteId = NoId /\ unscoredQuoteIds = <<>>
  /\ view = NoView
  /\ loading = TRUE /\ loadError = FALSE /\ token = NoToken /\ mounted = TRUE
  /\ calls = <<>>
  /\ db \in ServerDbs
  /\ edits = 0
  /\ again = NoView /\ api = NoRequest
  /\ savingRowIndex = NoIndex /\ quoteOffset = 0 /\ quoteHasMore = FALSE /\ loadingMore = FALSE
  /\ saveError = FALSE
  /\ dealsPage = NoDealsPage

\* The server has not handled the comparison request yet.
NoResult == [computed |-> FALSE, best_quote_id |-> NoId, unscored_quote_ids |-> <<>>]

NoPayload ==
  [id |-> NoId, amount |-> Empty, currency |-> "", supplier |-> "", leadTimeDays |-> 0, moq |-> 0]

\* The server has not handled the list request yet.
NoPage == [listed |-> FALSE, items |-> <<>>, has_more |-> FALSE]

\* An async call at its first await.  rows is the rows value the handler
\* closed over, offset the quoteOffset loadMoreQuotes closed over.
\* Bookkeeping of the comparison requests: issue orders the requests in
\* flight by the moment they were issued (0: none issued yet), superseded
\* marks a request when the answer to a request issued after it has been
\* applied.
NewCall(op, index, payload, captured) ==
  [op |-> op,
   stage |-> CASE op = "fetchData" -> "load" [] op = "loadMoreQuotes" -> "more"
               [] OTHER -> "save",
   quoteIds |-> <<>>, result |-> NoResult, issue |-> 0, superseded |-> FALSE,
   index |-> index, payload |-> payload, rows |-> captured,
   offset |-> IF op = "loadMoreQuotes" THEN quoteOffset ELSE 0, page |-> NoPage]

\* Call k has come to the await compareQuotes(accessToken, quoteIds).
IssueComparison(cs, k, quoteIds) ==
  LET inFlight == Cardinality({j \in 1..Len(cs) : cs[j].issue > 0})
  IN  [cs EXCEPT ![k] = [@ EXCEPT !.stage = "compare", !.quoteIds = quoteIds,
                                  !.issue = inFlight + 1]]

\* The calls left when call k ends after its refreshComparison has set
\* bestQuoteId (applied): the requests issued before it are superseded.
\* The requests issued after it move up one place.
EndComparison(cs, k, applied) ==
  LET earlier(j) == j # k /\ cs[j].issue > 0 /\ (cs[k].issue = 0 \/ cs[j].issue < cs[k].issue)
      later(j) == cs[k].issue > 0 /\ cs[j].issue > cs[k].issue
  IN  RemoveAt([j \in 1..Len(cs) |->
                  IF applied /\ earlier(j) THEN [cs[j] EXCEPT !.superseded = TRUE]
                  ELSE IF later(j) THEN [cs[j] EXCEPT !.issue = @ - 1]
                  ELSE cs[j]], k)

\* ensureSession / onAuthStateChange with a session: setToken, then
\* fetchData up to its first await.
FetchDataStart ==
  /\ mounted /\ Len(calls) < MaxInFlight
  /\ token' = "tok"
  /\ loading' = TRUE
  /\ calls' = Append(calls, NewCall("fetchData", 0, NoPayload, <<>>))
  /\ view' = NoView
  /\ UNCHANGED <<pageVars, loadError, mounted, db, sideVars, moreVars, edits>>

\* fetchData after getDeal and getQuotesForDeal resolved, up to the await
\* inside refreshComparison (or to its end, when there is no saved quote).
FetchDataLoaded(k) ==
  /\ k \in 1..Len(calls) /\ calls[k].op = "fetchData" /\ calls[k].stage = "load"
  /\ LET baseCurrency == IF ServerDealCurrency # "" THEN ServerDealCurrency ELSE "USD"
         quotes == QuotesPage(db, PAGE_SIZE, 0)
         mapped == [i \in 1..Len(quotes.items) |-> mapQuote(quotes.items[i], baseCurrency)]
         quoteIds == QuoteIdsOf(mapped)
     IN  /\ IF mounted
              THEN /\ dealCurrency' = baseCurrency
                   /\ rows' = mapped \o <<createBlankRow(baseCurrency)>>
                   /\ quoteOffset' = Len(mapped)
                   /\ quoteHasMore' = quotes.has_more
                   /\ loadError' = FALSE
                   /\ saveError' = FALSE
              ELSE UNCHANGED <<dealCurrency, rows, quoteOffset, quoteHasMore, loadError, saveError>>
         /\ IF quoteIds = <<>>
              THEN /\ calls' = EndComparison(calls, k, mounted)
                   /\ IF mounted
                        THEN bestQuoteId' = NoId /\ unscoredQuoteIds' = <<>> /\ loading' = FALSE
                        ELSE UNCHANGED <<bestQuoteId, unscoredQuoteIds, loading>>
              ELSE /\ calls' = IssueComparison(calls, k, quoteIds)
                   /\ UNCHANGED <<bestQuoteId, unscoredQuoteIds, loading>>
  /\ view' \in ViewOf(rows', dealCurrency', bestQuoteId', unscoredQuoteIds',
                      loading', loadError', mounted)
  /\ UNCHANGED <<token, mounted, db, sideVars, savingRowIndex, loadingMore, edits>>

\* fetchData when getDeal or getQuotesForDeal rejected: catch and finally.
\* authError: the ApiError code is UNAUTHORIZED or FORBIDDEN (sign out and
\* go to /login, no message).
FetchDataFailed(k, authError) ==
  /\ k \in 1..Len(calls) /\ calls[k].op = "fetchData" /\ calls[k].stage = "load"
  /\ calls' = RemoveAt(calls, k)
  /\ IF mounted
       THEN loadError' = (IF authError THEN loadError ELSE TRUE) /\ loading' = FALSE
       ELSE UNCHANGED <<loadError, loading>>
  /\ view' \in ViewOf(rows, dealCurrency, bestQuoteId, unscoredQuoteIds,
                      loading', loadError', mounted)
  /\ UNCHANGED <<pageVars, token, mounted, db, sideVars, moreVars, edits>>

\* The caller's finally block once refreshComparison returned.
AfterComparison(call) ==
  /\ IF call.op = "fetchData" /\ mounted THEN loading' = FALSE ELSE UNCHANGED loading
  /\ IF call.op = "submitRow" THEN savingRowIndex' = NoIndex ELSE UNCHANGED savingRowIndex
  /\ IF call.op = "loadMoreQuotes" THEN loadingMore' = FALSE ELSE UNCHANGED loadingMore

\* The server handles the comparison request of call k: any time between
\* the request and its answer.
ServerCompares(k) ==
  /\ k \in 1..Len(calls) /\ calls[k].stage = "compare" /\ ~calls[k].result.computed
  /\ LET comparison == ServerCompare(db, calls[k].quoteIds)
     IN  calls' = [calls EXCEPT ![k].result =
                     [computed |-> TRUE, best_quote_id |-> comparison.best_quote_id,
                      unscored_quote_ids |-> comparison.unscored_quote_ids]]
  /\ UNCHANGED <<pageVars, view, loading, loadError, token, mounted, db, edits, sideVars, moreVars>>

\* refreshComparison after compareQuotes resolved, then the caller's end.
CompareDone(k) ==
  /\ k \in 1..Len(calls) /\ calls[k].stage = "compare"
  /\ LET comparison == IF calls[k].result.computed THEN calls[k].result
                       ELSE ServerCompare(db, calls[k].quoteIds)
     IN  /\ IF mounted
              THEN /\ bestQuoteId' = comparison.best_quote_id
                   /\ unscoredQuoteIds' = comparison.unscored_quote_ids
              ELSE UNCHANGED <<bestQuoteId, unscoredQuoteIds>>
  /\ AfterComparison(calls[k])
  /\ calls' = EndComparison(calls, k, mounted)
  /\ view' \in ViewOf(rows, dealCurrency, bestQuoteId', unscoredQuoteIds',
                      loading', loadError, mounted)
  /\ UNCHANGED <<rows, dealCurrency, loadError, token, mounted, db, sideVars,
                 quoteOffset, quoteHasMore, saveError, edits>>

\* Variant: the catch block logs the failure and leaves bestQuoteId alone.
CompareFailed_KeepsBestQuoteId(k, authError) ==
  /\ k \in 1..Len(calls) /\ calls[k].stage = "compare"
  /\ AfterComparison(calls[k])
  /\ calls' = EndComparison(calls, k, FALSE)
  /\ view' \in ViewOf(rows, dealCurrency, bestQuoteId, unscoredQuoteIds,
                      loading', loadError, mounted)
  /\ UNCHANGED <<rows, dealCurrency, bestQuoteId, unscoredQuoteIds, loadError, token, mounted,
                 db, sideVars, quoteOffset, quoteHasMore, saveError, edits>>

\* refreshComparison when compareQuotes rejected, then the caller's end.
CompareFailed(k, authError) ==
  /\ k \in 1..Len(calls) /\ calls[k].stage = "compare"
  /\ IF ~authError /\ mounted THEN bestQuoteId' = NoId ELSE UNCHANGED bestQuoteId
  /\ AfterComparison(calls[k])
  /\ calls' = EndComparison(calls, k, ~authError /\ mounted)
  /\ view' \in ViewOf(rows, dealCurrency, bestQuoteId', unscoredQuoteIds,
                      loading', loadError, mounted)
  /\ UNCHANGED <<rows, dealCurrency, unscoredQuoteIds, loadError, token, mounted, db,
                 sideVars, quoteOffset, quoteHasMore, saveError, edits>>

\* onChange of an input of the Quote Inputs table (shown once loaded).
UpdateRow(index, key, value) ==
  /\ mounted /\ ~loading /\ ~loadError
  /\ index \in 1..Len(rows)
  /\ edits < MaxEdits
  /\ rows' = [rows EXCEPT ![index] = updateRow(@, key, value)]
  /\ edits' = edits + 1
  /\ view' \in ViewOf(rows', dealCurrency, bestQuoteId, unscoredQuoteIds,
                      loading, loadError, mounted)
  /\ UNCHANGED <<dealCurrency, bestQuoteId, unscoredQuoteIds, loading, loadError,
                 token, mounted, calls, db, sideVars, moreVars>>

\* submitRow goes on to its request: a token, no save under way, a
\* supplier, and a price that parses and is not <= 0.
Submits(row) ==
  LET price == parseDecimal(Trim(row.price))
  IN  /\ token # NoToken /\ savingRowIndex = NoIndex
      /\ row.supplier # "" /\ price # NullDec /\ ~lte(price, Zero)

\* onBlur of an input of the Quote Inputs table: submitRow up to its await
\* updateQuote / createQuote, or to its early return.
SubmitRow(index) ==
  /\ mounted /\ ~loading /\ ~loadError
  /\ index \in 1..Len(rows)
  /\ Len(calls) < MaxInFlight
  /\ LET row == rows[index]
     IN  IF Submits(row)
           THEN /\ saveError' = FALSE
                /\ savingRowIndex' = index
                /\ calls' = Append(calls,
                              NewCall("submitRow", index,
                                      [id |-> row.id, amount |-> Trim(row.price),
                                       currency |-> row.currency, supplier |-> row.supplier,
                                       leadTimeDays |-> row.leadTimeDays, moq |-> row.moq],
                                      rows))
           ELSE UNCHANGED <<savingRowIndex, saveError, calls>>
  /\ UNCHANGED <<pageVars, view, loading, loadError, token, mounted, db, edits, sideVars,
                 quoteOffset, quoteHasMore, loadingMore>>

\* Variant: the created row is put in front of all the rows the call
\* closed over, the filled-in draft among them, and a blank row is added.
nextRows_KeepsDraft(captured, index, updatedRow, isExisting, cur) ==
  IF isExisting THEN [captured EXCEPT ![index] = updatedRow]
  ELSE <<updatedRow>> \o captured \o <<createBlankRow(cur)>>

\* The rows submitRow sets once the quote is saved.
nextRows(captured, index, updatedRow, isExisting, cur) ==
  IF isExisting THEN [captured EXCEPT ![index] = updatedRow]
  ELSE <<updatedRow>> \o SelectSeq(captured, LAMBDA r : r.id # NoId)
         \o <<createBlankRow(cur)>>

\* submitRow after updateQuote / createQuote resolved, up to the await
\* inside refreshComparison.  rows and index are the ones the call closed
\* over.
SaveDone(k, base) ==
  /\ k \in 1..Len(calls) /\ calls[k].op = "submitRow" /\ calls[k].stage = "save"
  /\ ServerAccepts(calls[k].payload)
  /\ LET quote == ServerSave(db, calls[k].payload, base)
         updatedRow == mapQuote(quote, dealCurrency)
         isExisting == calls[k].payload.id # NoId
         next == nextRows(calls[k].rows, calls[k].index, updatedRow, isExisting, dealCurrency)
     IN  /\ db' = ServerPut(db, quote)
         /\ IF mounted THEN rows' = next /\ saveError' = FALSE
            ELSE UNCHANGED <<rows, saveError>>
         /\ IF mounted /\ ~isExisting THEN quoteOffset' = quoteOffset + 1
            ELSE UNCHANGED quoteOffset
         /\ calls' = IssueComparison(calls, k, QuoteIdsOf(next))
  /\ view' \in ViewOf(rows', dealCurrency, bestQuoteId, unscoredQuoteIds,
                      loading, loadError, mounted)
  /\ UNCHANGED <<dealCurrency, bestQuoteId, unscoredQuoteIds, loading, loadError,
                 token, mounted, edits, sideVars, savingRowIndex, quoteHasMore, loadingMore>>

\* Variant: the rejected save ends without the finally block.
SaveFailed_KeepsSaving(k) ==
  /\ k \in 1..Len(calls) /\ calls[k].op = "submitRow" /\ calls[k].stage = "save"
  /\ calls' = RemoveAt(calls, k)
  /\ \E authError \in BOOLEAN : saveError' = (IF authError THEN saveError ELSE TRUE)
  /\ UNCHANGED <<pageVars, view, loading, loadError, token, mounted, db, edits, sideVars,
                 savingRowIndex, quoteOffset, quoteHasMore, loadingMore>>

\* submitRow when updateQuote / createQuote rejected: catch (handleApiError:
\* a message, or with UNAUTHORIZED / FORBIDDEN sign out and go to /login)
\* and finally.
SaveFailed(k) ==
  /\ k \in 1..Len(calls) /\ calls[k].op = "submitRow" /\ calls[k].stage = "save"
  /\ calls' = RemoveAt(calls, k)
  /\ \E authError \in BOOLEAN : saveError' = (IF authError THEN saveError ELSE TRUE)
  /\ savingRowIndex' = NoIndex
  /\ UNCHANGED <<pageVars, view, loading, loadError, token, mounted, db, edits, sideVars,
                 quoteOffset, quoteHasMore, loadingMore>>

\* onClick of "Load more quotes" (shown while quoteHasMore, enabled while
\* not loadingMore): loadMoreQuotes up to its await getQuotesForDeal.
LoadMoreStart ==
  /\ mounted /\ ~loading /\ ~loadError
  /\ quoteHasMore /\ ~loadingMore /\ token # NoToken
  /\ Len(calls) < MaxInFlight
  /\ loadingMore' = TRUE
  /\ calls' = Append(calls, NewCall("loadMoreQuotes", 0, NoPayload, rows))
  /\ UNCHANGED <<pageVars, view, loading, loadError, token, mounted, db, edits, sideVars,
                 savingRowIndex, quoteOffset, quoteHasMore, saveError>>

\* The server handles the list request of call k: any time between the
\* request and its answer.
ServerLists(k) ==
  /\ k \in 1..Len(calls) /\ calls[k].stage = "more" /\ ~calls[k].page.listed
  /\ LET quotes == QuotesPage(db, PAGE_SIZE, calls[k].offset)
     IN  calls' = [calls EXCEPT ![k].page =
                     [listed |-> TRUE, items |-> quotes.items, has_more |-> quotes.has_more]]
  /\ UNCHANGED <<pageVars, view, loading, loadError, token, mounted, db, edits, sideVars, moreVars>>

\* [...savedRows, ...newRows]: the saved rows loadMoreQuotes closed over,
\* then the rows of the page whose id is not among them.
mergedRows(captured, mapped) ==
  LET savedRows == SelectSeq(captured, LAMBDA r : r.id # NoId)
      isNew(r) == r.id # NoId /\ \A i \in 1..Len(savedRows) : savedRows[i].id # r.id
  IN  savedRows \o SelectSeq(mapped, isNew)

\* rows.find((row) => !row.id) ?? createBlankRow(dealCurrency)
draftRow(captured, cur) ==
  LET drafts == SelectSeq(captured, LAMBDA r : r.id = NoId)
  IN  IF drafts # <<>> THEN Head(drafts) ELSE createBlankRow(cur)

\* loadMoreQuotes after getQuotesForDeal resolved, up to the await inside
\* refreshComparison (or to its end, without a saved row).  rows and
\* quoteOffset are the ones the call closed over.
LoadMoreDone(k) ==
  /\ k \in 1..Len(calls) /\ calls[k].stage = "more"
  /\ LET quotes == IF calls[k].page.listed THEN calls[k].page
                   ELSE QuotesPage(db, PAGE_SIZE, calls[k].offset)
         mapped == [i \in 1..Len(quotes.items) |-> mapQuote(quotes.items[i], dealCurrency)]
         merged == mergedRows(calls[k].rows, mapped)
         quoteIds == QuoteIdsOf(merged)
     IN  /\ IF mounted
              THEN /\ rows' = merged \o <<draftRow(calls[k].rows, dealCurrency)>>
                   /\ quoteOffset' = calls[k].offset + Len(mapped)
                   /\ quoteHasMore' = quotes.has_more
                   /\ saveError' = FALSE
              ELSE UNCHANGED <<rows, quoteOffset, quoteHasMore, saveError>>
         /\ IF quoteIds = <<>>
              THEN /\ calls' = EndComparison(calls, k, mounted)
                   /\ loadingMore' = FALSE
                   /\ IF mounted
                        THEN bestQuoteId' = NoId /\ unscoredQuoteIds' = <<>>
                        ELSE UNCHANGED <<bestQuoteId, unscoredQuoteIds>>
              ELSE /\ calls' = IssueComparison(calls, k, quoteIds)
                   /\ UNCHANGED <<bestQuoteId, unscoredQuoteIds, loadingMore>>
  /\ view' \in ViewOf(rows', dealCurrency, bestQuoteId', unscoredQuoteIds',
                      loading, loadError, mounted)
  /\ UNCHANGED <<dealCurrency, loading, loadError, token, mounted, db, edits, sideVars,
                 savingRowIndex>>

\* loadMoreQuotes when getQuotesForDeal rejected: catch (handleApiError: a
\* message, or sign out and go to /login) and finally.
LoadMoreFailed(k) ==
  /\ k \in 1..Len(calls) /\ calls[k].stage = "more"
  /\ calls' = RemoveAt(calls, k)
  /\ loadingMore' = FALSE
  /\ \E authError \in BOOLEAN : saveError' = (IF authError THEN saveError ELSE TRUE)
  /\ UNCHANGED <<pageVars, view, loading, loadError, token, mounted, db, edits, sideVars,
                 savingRowIndex, quoteOffset, quoteHasMore>>

\* The effect's cleanup: the page is left.
Unmount ==
  /\ mounted
  /\ mounted' = FALSE
  /\ view' = NoView
  /\ UNCHANGED <<pageVars, loading, loadError, token, calls, db, sideVars, moreVars, edits>>

\* What the user types.
PriceInputs == {Empty, T80}
SupplierInputs == {"", "S"}
NumberInputs == {TZero, TFive}

Next ==
  \/ FetchDataStart
  \/ \E k \in 1..MaxInFlight : FetchDataLoaded(k)
  \/ \E k \in 1..MaxInFlight, authError \in BOOLEAN : FetchDataFailed(k, authError)
  \/ \E k \in 1..MaxInFlight : CompareDone(k)
  \/ \E k \in 1..MaxInFlight, authError \in BOOLEAN : CompareFailed(k, authError)
  \/ \E index \in 1..(MaxQuotes + 1) :
       \/ \E value \in PriceInputs : UpdateRow(index, "price", value)
       \/ \E value \in Currencies : UpdateRow(index, "currency", value)
       \/ \E value \in SupplierInputs : UpdateRow(index, "supplier", value)
       \/ \E value \in NumberInputs : UpdateRow(index, "leadTimeDays", value)
       \/ UpdateRow(index, "moq", TSeven)
  \/ Unmount

Spec == Init /\ [][Next]_vars

\* ------------------------------------------------------- page with saving
\* The stored quotes when the page opens: none, or one quote in the deal's
\* currency.
SaveDbs ==
  {<<>>,
   <<[id |-> 1, supplier |-> "S", amount |-> T100, currency |-> "USD", amount_base |-> T100,
      base_currency |-> "USD", fx_rate |-> <<"1">>, fx_date |-> <<"d">>,
      lead_time_days |-> 5, moq |-> 0]>>}

InitSave ==
  /\ rows = <<>> /\ dealCurrency = "USD" /\ bestQuoteId = NoId /\ unscoredQuoteIds = <<>>
  /\ view = NoView
  /\ loading = TRUE /\ loadError = FALSE /\ token = NoToken /\ mounted = TRUE
  /\ calls = <<>>
  /\ db \in SaveDbs
  /\ edits = 0
  /\ again = NoView /\ api = NoRequest
  /\ savingRowIndex = NoIndex /\ quoteOffset = 0 /\ quoteHasMore = FALSE /\ loadingMore = FALSE
  /\ saveError = FALSE
  /\ dealsPage = NoDealsPage

\* What the user types before leaving the field.
SavePriceInputs == {T80, TNaN, TInfinity, TMinusFive}
SaveNumberInputs == {TFive, TMinusFive}

NextSave ==
  \/ FetchDataStart
  \/ \E k \in 1..MaxInFlight : FetchDataLoaded(k)
  \/ \E k \in 1..MaxInFlight : FetchDataFailed(k, FALSE)
  \/ \E k \in 1..MaxInFlight : ServerCompares(k)
  \/ \E k \in 1..MaxInFlight : CompareDone(k)
  \/ \E k \in 1..MaxInFlight : CompareFailed(k, FALSE)
  \/ \E index \in 1..(MaxQuotes + 1) :
       \/ \E value \in SavePriceInputs : UpdateRow(index, "price", value)
       \/ UpdateRow(index, "currency", "EUR")
       \/ UpdateRow(index, "supplier", "S")
       \/ \E value \in SaveNumberInputs : UpdateRow(index, "leadTimeDays", value)
       \/ UpdateRow(index, "moq", TMinusFive)
       \/ SubmitRow(index)
  \/ \E k \in 1..MaxInFlight, base \in ServerBases : SaveDone(k, base)
  \/ \E k \in 1..MaxInFlight : SaveFailed(k)
  \/ Unmount

SpecSave == InitSave /\ [][NextSave]_vars

\* ---------------------------------------------------------------- request
\* HTTP statuses of the responses looked at.
Statuses == {200, 204, 301, 400, 401, 403, 404, 409, 418, 429, 499, 500, 503}

ErrorCodes == {Undefined, JsonNumber, JsonString("VALIDATION_ERROR"), JsonString("")}

Bodies ==
  {NotJson, JsonNull}
  \cup {JsonObject(error, detail) :
          error \in {NoError, NullError, StringError}
                      \cup {ErrorObject(code, message) :
                              code \in ErrorCodes, message \in {Undefined, JsonString("m")}},
          detail \in {Undefined, JsonString("d")}}

\* What fetch can bring: a rejection (an Error or another value), or a
\* response with a status and a body.
Responses ==
  {[fetched |-> FALSE, isError |-> e, status |-> 0, ok |-> FALSE, body |-> NotJson] :
     e \in BOOLEAN}
  \cup {[fetched |-> TRUE, isError |-> FALSE, status |-> st, ok |-> st \in 200..299,
          body |-> b] : st \in Statuses, b \in Bodies}

InitApi ==
  /\ rows = <<>> /\ dealCurrency = "USD" /\ bestQuoteId = NoId /\ unscoredQuoteIds = <<>>
  /\ view = NoView
  /\ loading = TRUE /\ loadError = FALSE /\ token = NoToken /\ mounted = TRUE
  /\ calls = <<>> /\ db = <<>> /\ edits = 0
  /\ again = NoView
  /\ savingRowIndex = NoIndex /\ quoteOffset = 0 /\ quoteHasMore = FALSE /\ loadingMore = FALSE
  /\ saveError = FALSE
  /\ dealsPage = NoDealsPage
  /\ \E response \in Responses :
       api = [made |-> FALSE, response |-> response, outcome |-> NoOutcome]

\* One call of request runs to its end.
Request ==
  /\ ~api.made
  /\ api' = [api EXCEPT !.made = TRUE, !.outcome = request(api.response)]
  /\ UNCHANGED <<pageVars, view, loading, loadError, token, mounted, calls, db, edits, again,
                 dealsPage, moreVars>>

NextApi == Request

SpecApi == InitApi /\ [][NextApi]_vars

\* ------------------------------------------- page with more than one page
\* The stored quotes when the page opens: one more than a page holds.
MoreDb ==
  [i \in 1..(PAGE_SIZE + 1) |->
     [id |-> i, supplier |-> "S", amount |-> T100, currency |-> "USD", amount_base |-> T100,
      base_currency |-> "USD", fx_rate |-> <<"1">>, fx_date |-> <<"d">>,
      lead_time_days |-> 5, moq |-> 0]]

InitMore ==
  /\ rows = <<>> /\ dealCurrency = "USD" /\ bestQuoteId = NoId /\ unscoredQuoteIds = <<>>
  /\ view = NoView
  /\ loading = TRUE /\ loadError = FALSE /\ token = NoToken /\ mounted = TRUE
  /\ calls = <<>>
  /\ db = MoreDb
  /\ edits = 0
  /\ again = NoView /\ api = NoRequest
  /\ savingRowIndex = NoIndex /\ quoteOffset = 0 /\ quoteHasMore = FALSE /\ loadingMore = FALSE
  /\ saveError = FALSE
  /\ dealsPage = NoDealsPage

\* The page is loaded once; the user asks for more quotes, fills in and
\* leaves the draft row (the last row), or edits and leaves the first row.
NextMore ==
  \/ (calls = <<>> /\ rows = <<>> /\ FetchDataStart)
  \/ \E k \in 1..MaxInFlight : FetchDataLoaded(k)
  \/ \E k \in 1..MaxInFlight : CompareDone(k)
  \/ LoadMoreStart
  \/ \E k \in 1..MaxInFlight : ServerLists(k)
  \/ \E k \in 1..MaxInFlight : LoadMoreDone(k)
  \/ \E k \in 1..MaxInFlight : LoadMoreFailed(k)
  \/ UpdateRow(Len(rows), "supplier", "S")
  \/ UpdateRow(Len(rows), "price", T80)
  \/ UpdateRow(1, "leadTimeDays", TSeven)
  \/ SubmitRow(Len(rows))
  \/ SubmitRow(1)
  \/ \E k \in 1..MaxInFlight : SaveDone(k, Null)
  \/ \E k \in 1..MaxInFlight : SaveFailed(k)

SpecMore == InitMore /\ [][NextMore]_vars

\* ------------------------------------------------------- deals list page
\* The deals list page (DealsPage), looked at on its own in dealsPage: its
\* useState values under their names, isMounted.current as mounted, the
\* async calls in flight as calls, and the server's deals as deals (deal i
\* has id i).  A deal is its id; the form's texts are left out.
\* The server holds at most this many deals (PAGE_SIZE + 3).
MaxDeals == 23

\* "Load more" is followed while the table holds fewer rows than this.
MaxRows == 22

\* A call in flight: loadDeals with its offsetValue and append, or
\* handleSubmit's createDeal.  served: the server has handled the request;
\* items, has_more or deal are its answer.
DealCall(op, offsetValue, append) ==
  [op |-> op, offsetValue |-> offsetValue, append |-> append,
   served |-> FALSE, items |-> <<>>, has_more |-> FALSE, deal |-> NoId]

\* GET /deals?limit&offset: a page of the deals in the server's list order
\* (newest first, or oldest first).
ServerDealsPage(d, limit, offsetValue) ==
  LET n == Len(d.deals)
      listed == IF d.newestFirst THEN [i \in 1..n |-> d.deals[n + 1 - i]] ELSE d.deals
  IN  [items |-> SubSeq(listed, offsetValue + 1, Min(offsetValue + limit, n)),
       has_more |-> offsetValue + limit < n]

\* The page as the component is first rendered.
OpenDealsPage(deals, newestFirst) ==
  [open |-> TRUE, mounted |-> TRUE, token |-> NoToken, rows |-> <<>>,
   loading |-> TRUE, loadingMore |-> FALSE, error |-> FALSE, formError |-> FALSE,
   loadMoreError |-> FALSE, successMessage |-> FALSE, isCreateOpen |-> FALSE,
   submitting |-> FALSE, offset |-> 0, hasMore |-> FALSE,
   calls |-> <<>>, deals |-> deals, newestFirst |-> newestFirst]

\* No step of the deals list page touches the deal page or the request.
DealsFrame ==
  UNCHANGED <<pageVars, view, loading, loadError, token, mounted, calls, db, edits,
              again, api, moreVars>>

\* loadDeals up to its await getDeals.
loadDeals(d, offsetValue, append) ==
  IF ~d.mounted THEN d
  ELSE [d EXCEPT !.loadingMore = IF append THEN TRUE ELSE @,
                 !.loading = IF append THEN @ ELSE TRUE,
                 !.calls = Append(@, DealCall("loadDeals", offsetValue, append))]

\* ensureSession / onAuthStateChange with a session: setToken, then
\* loadDeals(session.access_token, 0, false).
SessionLoadsDeals ==
  /\ dealsPage.open /\ dealsPage.mounted
  /\ Len(dealsPage.calls) < MaxInFlight
  /\ dealsPage' = loadDeals([dealsPage EXCEPT !.token = "tok"], 0, FALSE)
  /\ DealsFrame

\* onClick of "Refresh" (disabled without a token and while loading) or of
\* "Try again"; the open form's backdrop covers both.
RefreshDeals ==
  /\ dealsPage.open /\ dealsPage.mounted /\ ~dealsPage.isCreateOpen
  /\ dealsPage.token # NoToken /\ ~dealsPage.loading
  /\ Len(dealsPage.calls) < MaxInFlight
  /\ dealsPage' = loadDeals([dealsPage EXCEPT !.offset = 0], 0, FALSE)
  /\ DealsFrame

\* onClick of "Load more" (shown while hasMore && !loading && !error,
\* disabled without a token and while loadingMore, covered by the open
\* form's backdrop).
LoadMoreDeals ==
  /\ dealsPage.open /\ dealsPage.mounted /\ ~dealsPage.isCreateOpen
  /\ dealsPage.hasMore /\ ~dealsPage.loading /\ ~dealsPage.error
  /\ dealsPage.token # NoToken /\ ~dealsPage.loadingMore
  /\ Len(dealsPage.calls) < MaxInFlight /\ Len(dealsPage.rows) < MaxRows
  /\ dealsPage' = loadDeals(dealsPage, dealsPage.offset, TRUE)
  /\ DealsFrame

\* The server handles the list request of call k: any time between the
\* request and its answer.
ServerListsDeals(k) ==
  /\ dealsPage.open /\ k \in 1..Len(dealsPage.calls)
  /\ dealsPage.calls[k].op = "loadDeals" /\ ~dealsPage.calls[k].served
  /\ LET deals == ServerDealsPage(dealsPage, PAGE_SIZE, dealsPage.calls[k].offsetValue)
     IN  dealsPage' = [dealsPage EXCEPT !.calls[k].served = TRUE,
                                        !.calls[k].items = deals.items,
                                        !.calls[k].has_more = deals.has_more]
  /\ DealsFrame

\* setOffset(offsetValue + deals.items.length)
setOffset(d, call, deals) == call.offsetValue + Len(deals.items)

\* loadDeals after getDeals resolved, and its finally block.
LoadDealsDone(k) ==
  /\ dealsPage.open /\ k \in 1..Len(dealsPage.calls)
  /\ dealsPage.calls[k].op = "loadDeals"
  /\ LET call == dealsPage.calls[k]
         deals == IF call.served THEN [items |-> call.items, has_more |-> call.has_more]
                  ELSE ServerDealsPage(dealsPage, PAGE_SIZE, call.offsetValue)
         ended == [dealsPage EXCEPT !.calls = RemoveAt(@, k)]
     IN  dealsPage' =
           IF ~dealsPage.mounted THEN ended
           ELSE [ended EXCEPT
                   !.rows = IF call.append THEN @ \o deals.items ELSE deals.items,
                   !.offset = setOffset(dealsPage, call, deals),
                   !.hasMore = deals.has_more,
                   !.error = IF call.append THEN @ ELSE FALSE,
                   !.loadMoreError = FALSE,
                   !.loadingMore = IF call.append THEN FALSE ELSE @,
                   !.loading = IF call.append THEN @ ELSE FALSE]
  /\ DealsFrame

\* loadDeals when getDeals rejected: catch (handleApiError: a message, or
\* with UNAUTHORIZED / FORBIDDEN sign out and go to /login) and finally.
LoadDealsFailed(k, authError) ==
  /\ dealsPage.open /\ k \in 1..Len(dealsPage.calls)
  /\ dealsPage.calls[k].op = "loadDeals"
  /\ LET call == dealsPage.calls[k]
         ended == [dealsPage EXCEPT !.calls = RemoveAt(@, k)]
     IN  dealsPage' =
           IF ~dealsPage.mounted THEN ended
           ELSE [ended EXCEPT
                   !.loadMoreError = IF call.append /\ ~authError THEN TRUE ELSE @,
                   !.error = IF ~call.append /\ ~authError THEN TRUE ELSE @,
                   !.loadingMore = IF call.append THEN FALSE ELSE @,
                   !.loading = IF call.append THEN @ ELSE FALSE]
  /\ DealsFrame

\* onClick of "New deal" (disabled without a token).
OpenCreate ==
  /\ dealsPage.open /\ dealsPage.mounted
  /\ dealsPage.token # NoToken /\ ~dealsPage.isCreateOpen
  /\ dealsPage' = [dealsPage EXCEPT !.formError = FALSE, !.isCreateOpen = TRUE]
  /\ DealsFrame

\* onClick of "Close" / "Cancel" / the backdrop of the form.
CloseCreate ==
  /\ dealsPage.open /\ dealsPage.mounted /\ dealsPage.isCreateOpen
  /\ dealsPage' = IF dealsPage.submitting THEN dealsPage
                  ELSE [dealsPage EXCEPT !.isCreateOpen = FALSE]
  /\ DealsFrame

\* onSubmit of the form: handleSubmit up to its await createDeal, or to its
\* early return.
HandleSubmit ==
  /\ dealsPage.open /\ dealsPage.mounted /\ dealsPage.isCreateOpen
  /\ Len(dealsPage.calls) < MaxInFlight
  /\ Len(dealsPage.deals) < MaxDeals
  /\ dealsPage' =
       IF dealsPage.token = NoToken \/ dealsPage.submitting THEN dealsPage
       ELSE [dealsPage EXCEPT !.submitting = TRUE,
                              !.calls = Append(@, DealCall("createDeal", 0, FALSE))]
  /\ DealsFrame

\* The server handles the create request of call k: any time between the
\* request and its answer.
ServerCreatesDeal(k) ==
  /\ dealsPage.open /\ k \in 1..Len(dealsPage.calls)
  /\ dealsPage.calls[k].op = "createDeal" /\ ~dealsPage.calls[k].served
  /\ LET newDeal == Len(dealsPage.deals) + 1
     IN  dealsPage' = [dealsPage EXCEPT !.deals = Append(@, newDeal),
                                        !.calls[k].served = TRUE,
                                        !.calls[k].deal = newDeal]
  /\ DealsFrame

\* handleSubmit after createDeal resolved, and its finally block.
CreateDealDone(k) ==
  /\ dealsPage.open /\ k \in 1..Len(dealsPage.calls)
  /\ dealsPage.calls[k].op = "createDeal"
  /\ LET call == dealsPage.calls[k]
         newDeal == IF call.served THEN call.deal ELSE Len(dealsPage.deals) + 1
     IN  dealsPage' = [dealsPage EXCEPT
                         !.deals = IF call.served THEN @ ELSE Append(@, newDeal),
                         !.rows = <<newDeal>> \o @,
                         !.offset = @ + 1,
                         !.successMessage = TRUE,
                         !.formError = FALSE,
                         !.isCreateOpen = FALSE,
                         !.submitting = FALSE,
                         !.calls = RemoveAt(@, k)]
  /\ DealsFrame

\* handleSubmit when createDeal rejected: catch and finally.
CreateDealFailed(k, authError) ==
  /\ dealsPage.open /\ k \in 1..Len(dealsPage.calls)
  /\ dealsPage.calls[k].op = "createDeal" /\ ~dealsPage.calls[k].served
  /\ dealsPage' = [dealsPage EXCEPT !.formError = IF authError THEN @ ELSE TRUE,
                                    !.submitting = FALSE,
                                    !.calls = RemoveAt(@, k)]
  /\ DealsFrame

\* The timer of the success message runs out.
ClearSuccessMessage ==
  /\ dealsPage.open /\ dealsPage.mounted /\ dealsPage.successMessage
  /\ dealsPage' = [dealsPage EXCEPT !.successMessage = FALSE]
  /\ DealsFrame

\* The effect's cleanup: the deals list page is left.
UnmountDeals ==
  /\ dealsPage.open /\ dealsPage.mounted
  /\ dealsPage' = [dealsPage EXCEPT !.mounted = FALSE]
  /\ DealsFrame

\* The deals the server holds when the page opens: one more than a page.
InitDeals ==
  /\ rows = <<>> /\ dealCurrency = "USD" /\ bestQuoteId = NoId /\ unscoredQuoteIds = <<>>
  /\ view = NoView
  /\ loading = TRUE /\ loadError = FALSE /\ token = NoToken /\ mounted = TRUE
  /\ calls = <<>> /\ db = <<>> /\ edits = 0
  /\ again = NoView /\ api = NoRequest
  /\ savingRowIndex = NoIndex /\ quoteOffset = 0 /\ quoteHasMore = FALSE /\ loadingMore = FALSE
  /\ saveError = FALSE
  /\ \E newestFirst \in BOOLEAN :
       dealsPage = OpenDealsPage([i \in 1..(PAGE_SIZE + 1) |-> i], newestFirst)

NextDeals ==
  \/ SessionLoadsDeals
  \/ RefreshDeals
  \/ LoadMoreDeals
  \/ \E k \in 1..MaxInFlight : ServerListsDeals(k)
  \/ \E k \in 1..MaxInFlight : LoadDealsDone(k)
  \/ \E k \in 1..MaxInFlight, authError \in BOOLEAN : LoadDealsFailed(k, authError)
  \/ OpenCreate
  \/ CloseCreate
  \/ HandleSubmit
  \/ \E k \in 1..MaxInFlight : ServerCreatesDeal(k)
  \/ \E k \in 1..MaxInFlight : CreateDealDone(k)
  \/ \E k \in 1..MaxInFlight, authError \in BOOLEAN : CreateDealFailed(k, authError)
  \/ ClearSuccessMessage
  \/ UnmountDeals

SpecDeals == InitDeals /\ [][NextDeals]_vars

\* -------------------------------------------------- comparison snapshots
SavedRow(id, price, currency, amountBase, lead) ==
  [id |-> id, supplier |-> "S", price |-> price, currency |-> currency,
   amountBase |-> amountBase, baseCurrency |-> "USD",
   fxRate |-> IF amountBase = Null THEN Null ELSE <<"2">>,
   fxDate |-> IF amountBase = Null THEN Null ELSE <<"d">>,
   leadTimeDays |-> lead, moq |-> 0]

\* Amount texts beyond the plain ones: not finite or negative, blank,
\* malformed, and other spellings of (and a fraction away from) 100.
OddAmounts == {TInfinity, TMinusFive, TBlank, TInvalid, T100_00, T100_01}

\* Saved quotes of a USD deal: in the deal's currency with any amount text,
\* in a foreign currency with or without a converted amount, in the
\* deal's currency with a converted amount stored next to a missing or a
\* different amount, and in a foreign currency with an amount converted
\* into a currency that is not the deal's.
SnapshotRows(id) ==
  {SavedRow(id, p, "USD", Null, l) : p \in {Empty, T80, T90, T100, TZero, TNaN}, l \in LeadTimes}
  \cup {SavedRow(id, p, "USD", Null, 5) : p \in OddAmounts}
  \cup {SavedRow(id, T100, "EUR", b, l) : b \in {Null, T80, T90}, l \in {5, 10}}
  \cup {SavedRow(id, Empty, "USD", T80, 5), SavedRow(id, T100, "USD", T90, 5)}
  \cup {[SavedRow(id, T100, "EUR", T80, 5) EXCEPT !.baseCurrency = "GBP"]}

\* The last row: the blank draft, or a draft being filled in.
SnapshotDrafts ==
  {[createBlankRow("USD") EXCEPT !.currency = c, !.leadTimeDays = l] :
      c \in Currencies, l \in {0, 5}}
  \cup {[createBlankRow("USD") EXCEPT !.supplier = "S", !.price = p, !.leadTimeDays = l] :
      p \in {Empty, T80, T100}, l \in {5, 20}}

InitEngine ==
  /\ dealCurrency = "USD"
  /\ \E n \in 0..MaxQuotes :
       \E saved \in [1..n -> UNION {SnapshotRows(id) : id \in 1..n}] :
         /\ \A i \in 1..n : saved[i].id = i
         /\ \E draft \in SnapshotDrafts : rows = [i \in 1..n |-> saved[i]] \o <<draft>>
  /\ bestQuoteId = NoId
  /\ unscoredQuoteIds = <<>>
  /\ view = NoView
  /\ loading = FALSE /\ loadError = FALSE /\ token = "tok" /\ mounted = TRUE
  /\ calls = <<>> /\ db = <<>> /\ edits = 0
  /\ again = NoView /\ api = NoRequest
  /\ savingRowIndex = NoIndex /\ quoteOffset = 0 /\ quoteHasMore = FALSE /\ loadingMore = FALSE
  /\ saveError = FALSE
  /\ dealsPage = NoDealsPage

\* Variant: the pass sorts the rows array itself (by lead time) instead of
\* a copy.
Render_SortsRowsInPlace ==
  /\ ~view.rendered
  /\ view' \in Renders(rows, dealCurrency, bestQuoteId, unscoredQuoteIds)
  /\ rows' = SortByLeadTime(rows)
  /\ UNCHANGED <<dealCurrency, bestQuoteId, unscoredQuoteIds, loading, loadError,
                 token, mounted, calls, db, edits, sideVars, moreVars>>

\* The component body runs on the snapshot and fills the comparison table.
Render ==
  /\ ~view.rendered
  /\ view' \in Renders(rows, dealCurrency, bestQuoteId, unscoredQuoteIds)
  /\ UNCHANGED <<pageVars, loading, loadError, token, mounted, calls, db, sideVars, moreVars, edits>>

\* The memoized values are computed once more from the same rows and
\* dealCurrency, by the same engine: its sort returns for the same list
\* the order it returned in the first pass.
RenderAgain ==
  /\ view.rendered /\ ~again.rendered
  /\ again' = RenderWith(rows, dealCurrency, bestQuoteId, unscoredQuoteIds, view.byPrice)
  /\ UNCHANGED <<pageVars, view, loading, loadError, token, mounted, calls, db, edits, api,
                 dealsPage, moreVars>>

NextEngine == Render \/ RenderAgain

SpecEngine == InitEngine /\ [][NextEngine]_vars
\* =================================================================
\* Properties of the comparison (SpecEngine)
\* =================================================================
Active == activeRows(rows)

Amount(i) == parseDecimal(getNormalizedAmount(Active[i], dealCurrency))

\* "Usable": the normalized amount is present and parses.
Usable(i) == Amount(i) # NullDec

Positive(i) == Usable(i) /\ greaterThan(Amount(i), Zero)

\* The rank-sum rule on the active rows.
RankSumItems ==
  [i \in 1..Len(Active) |-> [amount |-> Amount(i), lead |-> Active[i].leadTimeDays]]

RankSumScore(i) == RankSumScoreOf(RankSumItems, i)

RankSumWinner == RankSumWinnerOf(RankSumItems)

\* C1: bestValueIndex is the candidate (active, usable normalized amount
\* > 0, leadTimeDays > 0) with the lowest sum of price rank and lead-time
\* rank, the first in row order among equals; null without candidates.
C1_BestValueIsRankSumWinner == view.rendered => view.bestValueIndex = RankSumWinner

\* C1 on snapshots whose amounts are all numbers: the rank-sum rule holds
\* wherever no active row's amount parses to NaN.
C1_RankSumOnNumericAmounts ==
  (view.rendered /\ \A i \in 1..Len(Active) : ~IsNaN(Amount(i)))
    => view.bestValueIndex = RankSumWinner

\* The specification's example: (100,5), (90,10), (80,20) all score 2 and
\* the first row is shown as best value.
C1_TieExampleRendered ==
  /\ view.rendered
  /\ Len(Active) = 3
  /\ \A i \in 1..3 : Active[i].currency = dealCurrency
  /\ <<Active[1].price, Active[2].price, Active[3].price>> = <<T100, T90, T80>>
  /\ <<Active[1].leadTimeDays, Active[2].leadTimeDays, Active[3].leadTimeDays>> = <<5, 10, 20>>
  /\ \A i \in 1..3 : RankSumScore(i) = 2
  /\ view.bestValueIndex = 1
IsMinimumOver(S) ==
  IF S = {} THEN view.bestPrice = NullDec
  ELSE /\ \E i \in S : equals(Amount(i), view.bestPrice)
       /\ \A i \in S : ~lessThan(Amount(i), view.bestPrice)

\* C6 as claimed: best price is the minimum normalized amount among the
\* active quotes with a usable (present, parsable) normalized amount.
C6_BestPriceIsMinOfUsable ==
  view.rendered => IsMinimumOver({i \in 1..Len(Active) : Usable(i)})

\* C6 amended: best price is the minimum normalized amount among the active
\* quotes whose normalized amount is usable and strictly greater than 0;
\* null when there is none.
C6_BestPriceIsMinOfPositive ==
  view.rendered => IsMinimumOver({i \in 1..Len(Active) : Positive(i)})

\* Two positive amounts and a zero amount have been compared, and the best
\* price is the smaller positive one.
C6_MinAmongSeveralRendered ==
  /\ view.rendered
  /\ \E i, j, k \in 1..Len(Active) :
       /\ Positive(i) /\ Positive(j) /\ lessThan(Amount(j), Amount(i))
       /\ Usable(k) /\ equals(Amount(k), Zero)
       /\ equals(Amount(j), view.bestPrice)

\* C7: best lead time is the least leadTimeDays > 0 among the active rows;
\* a row with leadTimeDays = 0 is never marked fastest, and when no active
\* row has leadTimeDays > 0 the result is undefined and no row is marked.
C7_BestLeadTimeIsMinPositive ==
  view.rendered =>
    LET pos == {i \in 1..Len(Active) : Active[i].leadTimeDays > 0}
    IN  /\ pos = {} => /\ ~view.bestLeadTime.defined
                       /\ \A i \in 1..Len(Active) : ~view.cells[i].isFastest
        /\ pos # {} => /\ view.bestLeadTime.defined
                       /\ \E i \in pos : Active[i].leadTimeDays = view.bestLeadTime.value
                       /\ \A i \in pos : view.bestLeadTime.value <= Active[i].leadTimeDays
        /\ \A i \in 1..Len(Active) :
             view.cells[i].isFastest <=>
               (i \in pos /\ \A j \in pos : Active[i].leadTimeDays <= Active[j].leadTimeDays)

\* Rows with leadTimeDays 0 stand next to rows with different positive lead
\* times, and the shortest positive one is marked.
C7_ZeroLeadBesideFastestRendered ==
  /\ view.rendered
  /\ \E i, j, k \in 1..Len(Active) :
       /\ Active[i].leadTimeDays = 0 /\ ~view.cells[i].isFastest
       /\ Active[j].leadTimeDays = 5 /\ view.cells[j].isFastest
       /\ Active[k].leadTimeDays > 5 /\ ~view.cells[k].isFastest

\* Every active row has leadTimeDays 0 and the result is undefined.
C7_AllZeroLeadRendered ==
  /\ view.rendered /\ Len(Active) >= 2
  /\ \A i \in 1..Len(Active) : Active[i].leadTimeDays = 0
  /\ ~view.bestLeadTime.defined
\* The active rows without row i, and a sort order of them re-indexed to
\* the positions that follow from leaving row i out.
WithoutRow(active, i) == SubSeq(active, 1, i - 1) \o SubSeq(active, i + 1, Len(active))

Reindexed(order, i) ==
  [r \in 1..Len(order) |->
     [order[r] EXCEPT !.index = IF order[r].index > i THEN order[r].index - 1
                                ELSE order[r].index]]

\* C8: an active row with no usable normalized amount, or with
\* leadTimeDays = 0, is never the row bestValueIndex selects, and the
\* orders by amount and by lead time of the candidates (hence their ranks)
\* are those computed without the row.
C8_ExcludedRowsDoNotCount ==
  \A i \in 1..Len(Active) :
    (~Usable(i) \/ Active[i].leadTimeDays = 0) =>
      LET with == candidates(Active, dealCurrency)
          without == candidates(WithoutRow(Active, i), dealCurrency)
      IN  /\ view.rendered => view.bestValueIndex # i
          /\ {Reindexed(o, i) : o \in byPrice(with)} = byPrice(without)
          /\ Reindexed(byLeadTime(with), i) = byLeadTime(without)
          /\ \A c \in 1..Len(with) : with[c].index # i

\* A row without a usable amount that has a lead time, and a row with the
\* lowest amount but leadTimeDays = 0, stand before two candidates, the
\* second of which is shown as best value.
C8_ExcludedBesideCandidatesRendered ==
  /\ view.rendered /\ Len(Active) = 3
  /\ \/ ~Usable(1) /\ Active[1].leadTimeDays = 5
     \/ Active[1].leadTimeDays = 0 /\ Positive(1) /\ lessThan(Amount(1), Amount(3))
  /\ Positive(2) /\ Positive(3) /\ lessThan(Amount(3), Amount(2))
  /\ Active[2].leadTimeDays = 20 /\ Active[3].leadTimeDays = 5
  /\ view.bestValueIndex = 3

\* The normalized amount of a quote by the rule of the specification: the
\* raw amount in the deal's currency, the converted amount otherwise.
NormalizedByRule(row) ==
  IF row.currency = dealCurrency THEN row.price
  ELSE IF Truthy(row.amountBase) THEN row.amountBase ELSE Null

\* The quote the authoritative rank-sum algorithm selects among the active
\* rows, as a position.
AuthoritativeWinner ==
  RankSumWinnerOf([i \in 1..Len(Active) |->
                     [amount |-> parseDecimal(NormalizedByRule(Active[i])),
                      lead |-> Active[i].leadTimeDays]])

\* Every active row is a saved quote with an amount text.
SavedSnapshot == \A i \in 1..Len(Active) : Active[i].id # NoId /\ Active[i].price # Empty

\* C11: on a snapshot of saved quotes the row the local computation marks
\* best value (no server result at hand) is the row the authoritative
\* rank-sum algorithm selects, and no row is marked when it selects none.
C11_LocalMatchesAuthoritative ==
  (view.rendered /\ bestQuoteId = NoId /\ SavedSnapshot) =>
    \A i \in 1..Len(Active) :
      view.cells[i].isBestValue <=> (AuthoritativeWinner # NoIndex /\ i = AuthoritativeWinner)

DecimalLiteral(t) ==
  LET u == IF t # Empty /\ Head(t) = "-" THEN Tail(t) ELSE t
  IN  /\ \A i \in 1..Len(u) : u[i] \in Digits \cup {"."}
      /\ \E i \in 1..Len(u) : u[i] \in Digits
      /\ Cardinality({i \in 1..Len(u) : u[i] = "."}) <= 1

\* Empty or whitespace-only amount text: "no amount".
BlankAmount(t) == Trim(t) = Empty

\* Syntactically invalid numeric text: "invalid amount".
InvalidAmount(t) ==
  ~BlankAmount(t) /\ ~DecimalLiteral(Trim(t)) /\ Trim(t) \notin {TNaN, TInfinity}

\* C13: what parseDecimal returns for an empty or whitespace-only amount
\* differs from what it returns for syntactically invalid numeric text, so
\* that a caller can tell "no amount" from "invalid amount".
C13_ParseOutcomesDistinct ==
  view.rendered =>
    \A i, j \in 1..Len(rows) :
      (BlankAmount(rows[i].price) /\ InvalidAmount(rows[j].price))
        => parseDecimal(rows[i].price) # parseDecimal(rows[j].price)

RECURSIVE Zeros(_)
Zeros(n) == IF n = 0 THEN Empty ELSE <<"0">> \o Zeros(n - 1)

\* Sign, integer digits without leading zeros, and fraction digits padded
\* to n places, of a decimal literal.
RECURSIVE DropZeros(_)
DropZeros(t) == IF t # Empty /\ Head(t) = "0" THEN DropZeros(Tail(t)) ELSE t

Canonical(t, n) ==
  LET neg == t # Empty /\ Head(t) = "-"
      u == IF neg THEN Tail(t) ELSE t
      dot == DotPos(u, 1)
      ip == IF dot = 0 THEN u ELSE SubSeq(u, 1, dot - 1)
      fp == IF dot = 0 THEN Empty ELSE SubSeq(u, dot + 1, Len(u))
      digits == DropZeros(ip \o fp \o Zeros(n - Len(fp)))
  IN  [neg |-> neg /\ digits # Empty, digits |-> digits]

FractionLen(t) ==
  LET dot == DotPos(t, 1) IN IF dot = 0 THEN 0 ELSE Len(t) - dot

\* The decimal literals a and b denote the same decimal value: equal once
\* the shorter fraction is padded with zeros.
SameDecimalValue(a, b) ==
  LET n == IF FractionLen(a) > FractionLen(b) THEN FractionLen(a) ELSE FractionLen(b)
  IN  Canonical(a, n) = Canonical(b, n)

\* The normalized amount text of active row i, trimmed.
AmountText(i) ==
  LET t == getNormalizedAmount(Active[i], dealCurrency)
  IN  IF t = Null THEN Empty ELSE Trim(t)

\* C14: amounts are compared by value, exactly: of two active rows whose
\* amount texts are decimal literals, the rows whose texts denote the same
\* decimal value ("100" and "100.00") are both flagged best price or
\* neither is, and two rows flagged best price denote the same value
\* (amounts a fraction apart are never both the minimum).
C14_ComparisonIsExactByValue ==
  view.rendered =>
    \A i, j \in 1..Len(Active) :
      (DecimalLiteral(AmountText(i)) /\ DecimalLiteral(AmountText(j))) =>
        /\ SameDecimalValue(AmountText(i), AmountText(j))
             => (view.cells[i].isBest <=> view.cells[j].isBest)
        /\ (view.cells[i].isBest /\ view.cells[j].isBest)
             => SameDecimalValue(AmountText(i), AmountText(j))

\* "100" and "100.00" are both flagged best price, next to "100.01" which
\* is not.
C14_SameValueBothBestRendered ==
  /\ view.rendered
  /\ \E i, j, k \in 1..Len(Active) :
       /\ AmountText(i) = T100 /\ AmountText(j) = T100_00 /\ AmountText(k) = T100_01
       /\ view.cells[i].isBest /\ view.cells[j].isBest /\ ~view.cells[k].isBest

\* Active row i is normalized by its stored amountBase.
UsesAmountBase(i) ==
  /\ Truthy(Active[i].amountBase)
  /\ view.cells[i].normalized = Active[i].amountBase
  /\ (Active[i].currency # dealCurrency \/ ~Truthy(Active[i].price))

\* C15: an amountBase that serves as a normalized amount is denominated in
\* the deal's currency: the amountBase of a row whose baseCurrency is not
\* the deal's currency is not compared, i.e. the row is not flagged best
\* price, is no best-value candidate, and the best price is the one
\* computed without the row.
C15_AmountBaseIsInDealCurrency ==
  view.rendered =>
    \A i \in 1..Len(Active) :
      (UsesAmountBase(i) /\ Active[i].baseCurrency # dealCurrency) =>
        /\ ~view.cells[i].isBest
        /\ \A c \in 1..Len(candidates(Active, dealCurrency)) :
             candidates(Active, dealCurrency)[c].index # i
        /\ view.bestPrice = bestPrice(WithoutRow(Active, i), dealCurrency)

\* =================================================================
\* Properties of the page (Spec)
\* =================================================================
InList(id, list) == \E k \in 1..Len(list) : list[k] = id

\* Position among the active rows of row i of rows.
ActiveIndex(rs, i) == Len(activeRows(SubSeq(rs, 1, i)))

\* A saved quote in a foreign currency without amountBase.
NeedsFx(row) == row.id # NoId /\ row.currency # dealCurrency /\ ~Truthy(row.amountBase)

\* C2: whenever the tables are shown, every saved quote in a foreign
\* currency without amountBase is listed in unscoredQuoteIds and is marked
\* neither best price nor best value.
C2_ForeignWithoutBaseIsUnscored ==
  view.rendered =>
    \A i \in 1..Len(rows) :
      NeedsFx(rows[i]) =>
        /\ InList(rows[i].id, unscoredQuoteIds)
        /\ ~view.cells[ActiveIndex(rows, i)].isBest
        /\ ~view.cells[ActiveIndex(rows, i)].isBestValue

\* The step is an updateRow call that changes the currency of saved row i
\* to a currency other than the deal's.
CurrencyEdited(i) ==
  /\ edits' = edits + 1
  /\ rows[i].id # NoId
  /\ rows'[i].currency # rows[i].currency
  /\ rows'[i].currency # dealCurrency

\* C4: right after updateRow changed a saved quote's currency away from
\* the deal's currency, the comparison shows the quote as unscored: not
\* best price, not best value, reported as unscored.
C4_CurrencyEditShowsUnscored ==
  [][\A i \in 1..Len(rows) :
       CurrencyEdited(i) =>
         LET cell == view'.cells[ActiveIndex(rows', i)]
         IN  ~cell.isBest /\ ~cell.isBestValue /\ cell.isUnscored]_vars

\* C5: an updateRow call that changes a row's price or currency leaves the
\* row's amountBase, fxRate and fxDate null in the same step.
C5_EditClearsFxFields ==
  [][edits' = edits + 1 =>
       \A i \in 1..Len(rows) :
         (rows'[i].price # rows[i].price \/ rows'[i].currency # rows[i].currency)
           => /\ rows'[i].amountBase = Null
              /\ rows'[i].fxRate = Null
              /\ rows'[i].fxDate = Null]_vars

\* A saved quote that came with amountBase, fxRate and fxDate has had its
\* currency edited and carries none of them.
C5_FxFieldsClearedByEdit ==
  \E i \in 1..Len(rows) :
    /\ rows[i].id # NoId /\ rows[i].id <= Len(db)
    /\ Truthy(db[rows[i].id].amount_base) /\ Truthy(db[rows[i].id].fx_rate)
    /\ rows[i].currency # db[rows[i].id].currency
    /\ rows[i].amountBase = Null /\ rows[i].fxRate = Null /\ rows[i].fxDate = Null

\* A draft row: no supplier, no amount, no id.
IsDraft(row) == row.supplier = "" /\ row.price = Empty /\ row.id = NoId

WithoutDrafts(rs) == SelectSeq(rs, LAMBDA row : ~IsDraft(row))

\* C9: a draft row is never active, whatever its currency, leadTimeDays
\* and moq: the comparison shown is the one of the rows without the draft
\* rows (so a draft decides no best price, lead time or value and has no
\* column), and no draft's id is in unscoredQuoteIds or in the id list of a
\* comparison request.
C9_DraftRowsNeverCount ==
  /\ \A i \in 1..Len(rows) : IsDraft(rows[i]) => ~IsActive(rows[i])
  /\ view.rendered =>
       /\ view \in Renders(WithoutDrafts(rows), dealCurrency, bestQuoteId, unscoredQuoteIds)
       /\ Len(view.cells) = Len(WithoutDrafts(rows))
  /\ ~InList(NoId, unscoredQuoteIds)
  /\ \A k \in 1..Len(calls) : ~InList(NoId, calls[k].quoteIds)

\* The draft row has a foreign currency and the only lead time > 0 of the
\* table, and the comparison of a saved quote is shown without it; another
\* draft sat next to the rows whose ids went into a comparison request.
C9_EditedDraftBesideSavedRendered ==
  /\ view.rendered /\ Len(rows) >= 2
  /\ \E i \in 1..Len(rows) :
       /\ IsDraft(rows[i]) /\ rows[i].currency # dealCurrency /\ rows[i].leadTimeDays = 5
       /\ \A j \in 1..Len(rows) : j # i => rows[j].id # NoId /\ rows[j].leadTimeDays = 0
  /\ ~view.bestLeadTime.defined
  /\ unscoredQuoteIds # <<>>

\* C10: with a server-computed bestQuoteId the row marked best value is
\* exactly the row with that id, whatever bestValueIndex is; bestValueIndex
\* decides the mark only while bestQuoteId is null.
C10_ServerBestQuoteDecidesMark ==
  view.rendered =>
    \A i \in 1..Len(Active) :
      view.cells[i].isBestValue <=>
        IF bestQuoteId # NoId THEN Active[i].id = bestQuoteId
        ELSE view.bestValueIndex # NoIndex /\ i = view.bestValueIndex

\* The server's bestQuoteId names one row while the local bestValueIndex
\* points at another: the server's row is marked, the local one is not.
C10_ServerAndLocalDisagreeRendered ==
  /\ view.rendered /\ bestQuoteId # NoId
  /\ view.bestValueIndex # NoIndex
  /\ Active[view.bestValueIndex].id # bestQuoteId
  /\ ~view.cells[view.bestValueIndex].isBestValue
  /\ \E i \in 1..Len(Active) : Active[i].id = bestQuoteId /\ view.cells[i].isBestValue
\* With no saved quote, fetchData's refreshComparison sets bestQuoteId to
\* null and unscoredQuoteIds to the empty list and ends without a request.
RefreshWithoutQuotes ==
  \A k \in 1..MaxInFlight :
    (FetchDataLoaded(k) /\ mounted /\ db = <<>>) =>
      /\ bestQuoteId' = NoId /\ unscoredQuoteIds' = <<>>
      /\ Len(calls') = Len(calls) - 1

\* Without an active row whose amount is > 0 there is no best price and no
\* row is marked best price.
NoBestPriceWithoutAmounts ==
  (view.rendered /\ \A i \in 1..Len(Active) : ~Positive(i)) =>
    view.bestPrice = NullDec /\ \A i \in 1..Len(Active) : ~view.cells[i].isBest

\* Without an active row whose lead time is > 0 there is no best lead
\* time and no row is marked fastest.
NoFastestWithoutLeadTimes ==
  (view.rendered /\ \A i \in 1..Len(Active) : Active[i].leadTimeDays <= 0) =>
    ~view.bestLeadTime.defined /\ \A i \in 1..Len(Active) : ~view.cells[i].isFastest

\* Without a best-value candidate bestValueIndex is null.
NoBestValueIndexWithoutCandidates ==
  (view.rendered /\ candidates(Active, dealCurrency) = <<>>) => view.bestValueIndex = NoIndex

\* Without a best-value candidate no row is marked best value.
NoBestValueMarkWithoutCandidates ==
  (view.rendered /\ candidates(Active, dealCurrency) = <<>>) =>
    \A i \in 1..Len(Active) : ~view.cells[i].isBestValue

\* C17: when no quote qualifies, every output is null or empty: with no
\* saved quote refreshComparison sets bestQuoteId to null and
\* unscoredQuoteIds to the empty list without a request to the server, and
\* with no qualifying active row bestPrice, bestLeadTime and bestValueIndex
\* are null / undefined and no row is marked best in any category.
C17_NothingQualifiesNothingMarked ==
  /\ [][RefreshWithoutQuotes]_vars
  /\ [](/\ NoBestPriceWithoutAmounts /\ NoFastestWithoutLeadTimes
        /\ NoBestValueIndexWithoutCandidates /\ NoBestValueMarkWithoutCandidates)

\* Candidate c of the list has both a strictly lower normalized amount and
\* a strictly shorter lead time than active row i.
Dominates(c, i) ==
  /\ lessThan(c.amount, Amount(i))
  /\ c.leadTimeDays < Active[i].leadTimeDays

\* C27: the candidate selected by bestValueIndex is never strictly
\* dominated: no other candidate has both a strictly lower normalized
\* amount and a strictly shorter lead time than the selected one.
C27_SelectedNeverDominated ==
  (view.rendered /\ view.bestValueIndex # NoIndex) =>
    LET list == candidates(Active, dealCurrency)
    IN  \A c \in 1..Len(list) : ~Dominates(list[c], view.bestValueIndex)

\* =================================================================
\* Properties of the page with saving (SpecSave)
\* =================================================================
FiniteNonNegative(d) == d.k = "fin" /\ d.n >= 0

\* The amount of active row i parses, but not to a finite, non-negative
\* decimal.
Improper(i) == Usable(i) /\ ~FiniteNonNegative(Amount(i))

IsCandidate(i) ==
  LET list == candidates(Active, dealCurrency)
  IN  \E c \in 1..Len(list) : list[c].index = i

\* No row with such an amount is the best price or a best-value candidate.
ImproperAmountsNeverRanked ==
  view.rendered =>
    \A i \in 1..Len(Active) : Improper(i) => ~view.cells[i].isBest /\ ~IsCandidate(i)

\* No submitRow call carries such an amount to the server.
ImproperAmountsNeverSent ==
  \A k \in 1..Len(calls) :
    calls[k].op = "submitRow" => FiniteNonNegative(parseDecimal(calls[k].payload.amount))

\* C16: an amount that parses to NaN, to an infinity or to a negative
\* number never takes part in a ranking and is never saved: its row is
\* neither the best price nor a best-value candidate, and no submitRow
\* call sends it to the server.
C16_ImproperAmountsStayOut == ImproperAmountsNeverRanked /\ ImproperAmountsNeverSent

\* Call k is a comparison request that a later request has overtaken: the
\* answer to a request issued after it has already been applied.
Overtaken(k) == k \in 1..Len(calls) /\ calls[k].stage = "compare" /\ calls[k].superseded

\* C18: when comparison requests overlap, bestQuoteId and unscoredQuoteIds
\* end up as the most recently issued request left them, whatever order
\* the answers arrive in: the answer (or the failure) of an overtaken
\* request changes neither.
C18_LatestRequestWins ==
  [][\A k \in 1..MaxInFlight :
       (Overtaken(k) /\ (CompareDone(k) \/ \E authError \in BOOLEAN : CompareFailed(k, authError)))
         => UNCHANGED <<bestQuoteId, unscoredQuoteIds>>]_vars

\* C19: in every reachable state the leadTimeDays and the moq of every row
\* is a non-negative integer, whatever text was typed.
C19_LeadTimeAndMoqNonNegative ==
  \A i \in 1..Len(rows) :
    /\ rows[i].leadTimeDays \in Nat
    /\ rows[i].moq \in Nat

\* =================================================================
\* Properties of request (SpecApi)
\* =================================================================
\* The code that goes with a status alone.
StatusCode(status) ==
  CASE status >= 500 -> "INTERNAL_ERROR"
    [] status = 401 -> "UNAUTHORIZED"
    [] status = 403 -> "FORBIDDEN"
    [] status = 404 -> "NOT_FOUND"
    [] status = 409 -> "CONFLICT"
    [] status = 429 -> "RATE_LIMITED"
    [] OTHER -> "HTTP_ERROR"

\* The body is JSON and carries an error object whose code is a string.
BodyNamesCode(body) ==
  body.json /\ body.data = "object" /\ body.error.kind = "object"
    /\ body.error.code.type = "string"

SaveInFlight == \E j \in 1..Len(calls) : calls[j].op = "submitRow" /\ calls[j].stage = "save"

\* C21: submitRow sends a create or update request only when the row has
\* a supplier and a price that parses to a decimal strictly greater than
\* 0, a token is present and no other save is in flight; otherwise it
\* returns without a request and changes no state.
C21_SubmitRowSendsOnlyCompleteRows ==
  [][\A index \in 1..(MaxQuotes + 1) :
       SubmitRow(index) =>
         IF Len(calls') > Len(calls)
           THEN /\ rows[index].supplier # ""
                /\ greaterThan(parseDecimal(rows[index].price), Zero)
                /\ token # NoToken
                /\ ~SaveInFlight
           ELSE UNCHANGED vars]_vars

\* C23: completing a save replaces only the saved row: every other row of
\* rows, with the edits updateRow made to it while the save was in flight,
\* is a row of rows after the save.
C23_SaveKeepsOtherRowsEdits ==
  [][\A k \in 1..MaxInFlight :
       (mounted /\ \E base \in ServerBases : SaveDone(k, base)) =>
         \A j \in 1..Len(rows) :
           j # calls[k].index => \E i \in 1..Len(rows') : rows'[i] = rows[j]]_vars

\* The step is the onChange handler's updateRow(index, key, value).
Edited(index, key, value) ==
  /\ edits' = edits + 1 /\ index \in 1..Len(rows)
  /\ rows' = [rows EXCEPT ![index] = updateRow(@, key, value)]

\* What an edit of field key of row index leaves as it was: every other
\* row, bestQuoteId and unscoredQuoteIds, and every other field of the row,
\* but for amountBase, fxRate and fxDate, which an edit of price or
\* currency sets to null.
EditFrame(index, key) ==
  /\ Len(rows') = Len(rows)
  /\ \A j \in 1..Len(rows) : j # index => rows'[j] = rows[j]
  /\ UNCHANGED <<bestQuoteId, unscoredQuoteIds>>
  /\ \A f \in DOMAIN rows[index] \ {key} :
       rows'[index][f] =
         IF key \in {"price", "currency"} /\ f \in {"amountBase", "fxRate", "fxDate"}
           THEN Null ELSE rows[index][f]

\* C29: updateRow(index, key, value) changes only the row at index and
\* only the named field, except that an edit of price or currency also
\* clears amountBase, fxRate and fxDate: an edit of supplier, leadTimeDays
\* or moq leaves the row's price, currency, amountBase, fxRate and fxDate
\* as they were, and no edit changes another row, bestQuoteId or
\* unscoredQuoteIds.
C29_EditTouchesOnlyItsField ==
  [][\A index \in 1..(MaxQuotes + 1) :
       /\ \A value \in PriceInputs : Edited(index, "price", value) => EditFrame(index, "price")
       /\ \A value \in Currencies : Edited(index, "currency", value) => EditFrame(index, "currency")
       /\ \A value \in SupplierInputs :
            Edited(index, "supplier", value) => EditFrame(index, "supplier")
       /\ \A value \in NumberInputs :
            Edited(index, "leadTimeDays", value) => EditFrame(index, "leadTimeDays")
       /\ Edited(index, "moq", TSeven) => EditFrame(index, "moq")]_vars

\* A saved quote with a converted amount has had its supplier and its moq
\* edited, and still carries the amount, currency, amountBase,
\* fxRate and fxDate the server gave it.
C29_EditedRowKeepsFxFields ==
  \E i \in 1..Len(rows) :
    /\ rows[i].id # NoId /\ rows[i].id <= Len(db)
    /\ rows[i].supplier = "" /\ rows[i].moq = 7
    /\ Truthy(rows[i].amountBase) /\ rows[i].amountBase = db[rows[i].id].amount_base
    /\ rows[i].fxRate = db[rows[i].id].fx_rate /\ rows[i].fxDate = db[rows[i].id].fx_date
    /\ rows[i].price = db[rows[i].id].amount /\ rows[i].currency = db[rows[i].id].currency

\* The columns of the comparison table marked "Best value".
BestValueMarks == {i \in 1..Len(view.cells) : view.cells[i].isBestValue}

\* C26: in every state at most one row of the comparison table is marked
\* best value, whether the mark comes from the server's bestQuoteId or from
\* the local bestValueIndex.
C26_AtMostOneBestValueMark ==
  view.rendered => Cardinality(BestValueMarks) <= 1

\* The table shows one mark while the server's bestQuoteId and the local
\* bestValueIndex each name a row of the table, and not the same one.
C26_OneMarkOfTwoNamed ==
  /\ view.rendered /\ Cardinality(BestValueMarks) = 1
  /\ bestQuoteId # NoId /\ view.bestValueIndex # NoIndex
  /\ \E i \in 1..Len(Active) : i # view.bestValueIndex /\ Active[i].id = bestQuoteId

\* The submitRow calls that have not ended: awaiting their create/update
\* request or the comparison refresh that follows it.
SubmitRowCalls == {j \in 1..Len(calls) : calls[j].op = "submitRow"}

\* C24 as stated: savingRowIndex is non-null exactly while a create/update
\* request started by submitRow is outstanding.
C24_SavingExactlyWhileSaveRequest ==
  savingRowIndex # NoIndex <=> SaveInFlight

\* C24, amended: at most one submitRow call is under way and savingRowIndex
\* is non-null exactly from its request until the call ends, the comparison
\* refresh after a successful save included; a submitRow call made
\* meanwhile sends nothing; and savingRowIndex is null once the call has
\* ended, whether the save succeeded or failed.
C24_OneSaveAtATime ==
  /\ [](/\ Cardinality(SubmitRowCalls) <= 1
        /\ savingRowIndex # NoIndex <=> SubmitRowCalls # {})
  /\ [][/\ \A index \in 1..Len(rows) :
             (savingRowIndex # NoIndex /\ SubmitRow(index)) => UNCHANGED <<calls, savingRowIndex>>
        /\ \A k \in 1..MaxInFlight :
             (k \in SubmitRowCalls /\
                (SaveFailed(k) \/ CompareDone(k) \/ \E a \in BOOLEAN : CompareFailed(k, a)))
               => savingRowIndex' = NoIndex]_vars

\* A save has succeeded and its comparison refresh is under way: no
\* create/update request is outstanding and savingRowIndex is still set.
C24_SavingThroughComparison ==
  /\ savingRowIndex # NoIndex /\ ~SaveInFlight
  /\ \E j \in SubmitRowCalls : calls[j].stage = "compare"

\* C28: when the comparison request fails with an error other than
\* UNAUTHORIZED / FORBIDDEN, bestQuoteId becomes null, so that the local
\* bestValueIndex decides the best-value mark; unscoredQuoteIds and rows
\* stay as they are, no error message is set, and the caller ends as after
\* an answer (its catch block does not run).
C28_ComparisonFailureFallsBackToLocal ==
  [][\A k \in 1..MaxInFlight :
       (mounted /\ CompareFailed(k, FALSE)) =>
         /\ bestQuoteId' = NoId
         /\ UNCHANGED <<unscoredQuoteIds, rows, loadError, saveError>>
         /\ Len(calls') = Len(calls) - 1
         /\ calls[k].op = "fetchData" => ~loading'
         /\ calls[k].op = "submitRow" => savingRowIndex' = NoIndex
         /\ \A i \in 1..Len(view'.cells) :
              view'.cells[i].isBestValue <=>
                (view'.bestValueIndex # NoIndex /\ i = view'.bestValueIndex)]_vars

\* No call is under way, the server would name a best quote for the rows
\* of the table, bestQuoteId is null all the same and no message is shown:
\* the last comparison request failed, and the mark is the local one.
C28_LocalMarkAfterFailure ==
  /\ mounted /\ calls = <<>> /\ view.rendered
  /\ ServerCompare(db, QuoteIdsOf(rows)).best_quote_id # NoId
  /\ bestQuoteId = NoId /\ ~loadError /\ ~saveError
  /\ view.bestValueIndex # NoIndex /\ view.cells[view.bestValueIndex].isBestValue

\* =================================================================
\* Properties of the deals list page (SpecDeals)
\* =================================================================
\* C30: once loading is over, the pagination offset of the deals list page
\* equals the number of deals held in rows, after any interleaving of
\* loadDeals (initial, refresh, load-more) and createDeal completions.
C30_OffsetCountsRows ==
  (dealsPage.open /\ dealsPage.mounted /\ ~dealsPage.loading) =>
    dealsPage.offset = Len(dealsPage.rows)

\* =================================================================
\* Properties of the page with more than one page of quotes (SpecMore)
\* =================================================================
\* Every saved row of rows is a row of rows after the step.
SavedRowsStay ==
  \A i \in 1..Len(rows) :
    rows[i].id # NoId => \E j \in 1..Len(rows') : rows'[j].id = rows[i].id

\* The quotes of the page that call k of loadMoreQuotes receives.
PageItems(k) ==
  IF calls[k].page.listed THEN calls[k].page.items
  ELSE QuotesPage(db, PAGE_SIZE, calls[k].offset).items

\* C22: a saved quote that is in rows stays in rows under every
\* interleaving of submitRow and loadMoreQuotes: neither the answer to a
\* load-more request nor the completion of a save removes a saved row, and
\* the load-more answer adds its page to the quoteOffset that counts the
\* created rows.
C22_SavedRowsSurviveLoadMore ==
  [][\A k \in 1..MaxInFlight :
       /\ (mounted /\ LoadMoreDone(k)) =>
            SavedRowsStay /\ quoteOffset' = quoteOffset + Len(PageItems(k))
       /\ (mounted /\ \E base \in ServerBases : SaveDone(k, base)) => SavedRowsStay]_vars

\* C25: once the page has loaded, rows holds exactly one row without an
\* id, the draft row, as its last row, and the saved rows have pairwise
\* distinct ids.
C25_OneDraftRowLast ==
  rows # <<>> =>
    /\ rows[Len(rows)].id = NoId
    /\ \A i \in 1..(Len(rows) - 1) : rows[i].id # NoId
    /\ \A i, j \in 1..(Len(rows) - 1) : rows[i].id = rows[j].id => i = j

\* A quote was created and a further page loaded, one after the other:
\* rows holds the created quote, the quotes of both pages and the draft.
C25_CreatedAndLoadedMore ==
  /\ calls = <<>> /\ Len(db) = PAGE_SIZE + 2 /\ ~quoteHasMore
  /\ Len(rows) = PAGE_SIZE + 3
  /\ rows[1].id = PAGE_SIZE + 2
====
